---- MODULE Spec2Model ----
(***************************************************************************)
(* A model of bliq's versioned block storage: the MetaStore (Dataset,      *)
(* Version and Block rows, src/bliq/metastore.py), the DataStore (block    *)
(* payloads, src/bliq/datastore.py) and the DatasetManager that sequences  *)
(* the calls on the two (src/bliq/manager.py).  Every manager operation is *)
(* a sequence of steps, one per store call, so that the states between the *)
(* store calls are states of the model.                                    *)
(***************************************************************************)
EXTENDS Integers, Sequences, FiniteSets, TLC

VARIABLES
    datasets,   \* Dataset rows: the (namespace, name) keys present
    versions,   \* Version rows
    blocks,     \* Block rows
    store,      \* the block store: the payloads physically present
    nextBlock,  \* number of block identifiers generated so far
    clock,      \* logical time of the metastore, for created_at
    pc,         \* per caller: the position inside the running operation
    loc,        \* per caller: the locals of the running operation
    issued,     \* per dataset: the labels extend has given to new versions, in order
    cnvIn,      \* input of a direct _calculate_next_version call
    cnvOut,     \* its result
    backend,    \* the DataStore implementation the manager was constructed with
    query,      \* a direct read_blocks call: its arguments and the rows returned
    runner      \* the MigrationRunner: its files, the schema_migrations table, the running migrate

vars == <<datasets, versions, blocks, store, nextBlock, clock, pc, loc, issued, cnvIn, cnvOut, backend, query, runner>>

(***************************************************************************)
(* Bounds and input sets                                                   *)
(***************************************************************************)
\* number of write_block calls (= block identifiers generated) in a run
MaxBlocks == 3
\* length of the label list given to a direct _calculate_next_version call
MaxLabels == 3

\* the callers; the operations of one caller run one after the other
Procs == {1}

\* a (namespace, name) key; the two strings are sequences of characters, as
\* the version labels are
AllDatasetKeys == { << <<"n", "s">>, <<"a">> >>, << <<"n", "s">>, <<"b">> >> }

\* the dataset of the runs with one dataset
DatasetKeys == { << <<"n", "s">>, <<"a">> >> }

\* the row batches a caller may pass: row count, schema, and the size in bytes
\* the block store reports for the parquet file written from it
Tables == { [rows |-> 1, schema |-> "s1", bytes |-> 3],
            [rows |-> 2, schema |-> "s2", bytes |-> 5] }

OneTable == { t \in Tables : t.rows = 1 }

NoTable == [rows |-> 0, schema |-> "", bytes |-> 0]

(***************************************************************************)
(* Version labels are strings; a string is a sequence of characters so     *)
(* that formatting and parsing are computed as Python computes them.       *)
(***************************************************************************)
DigitChars == <<"0", "1", "2", "3", "4", "5", "6", "7", "8", "9">>

IsDigit(c) == \E i \in 1..10 : DigitChars[i] = c

DigitVal(c) == (CHOOSE i \in 1..10 : DigitChars[i] = c) - 1

RECURSIVE DecVal(_)
DecVal(s) ==
    IF s = <<>> THEN 0
    ELSE DecVal(SubSeq(s, 1, Len(s) - 1)) * 10 + DigitVal(s[Len(s)])

RECURSIVE NatToStr(_)
NatToStr(n) ==
    IF n < 10 THEN <<DigitChars[n + 1]>>
    ELSE NatToStr(n \div 10) \o <<DigitChars[(n % 10) + 1]>>

\* str(n) of a Python int
IntToStr(n) == IF n < 0 THEN <<"-">> \o NatToStr(-n) ELSE NatToStr(n)

\* v.replace("v", "")
StripV(s) == SelectSeq(s, LAMBDA c : c # "v")

\* int(s) accepts an optional sign followed by decimal digits (leading zeros
\* included) and raises ValueError otherwise
IntBody(s) == IF s # <<>> /\ s[1] \in {"-", "+"} THEN Tail(s) ELSE s

IntParses(s) == IntBody(s) # <<>> /\ \A i \in 1..Len(IntBody(s)) : IsDigit(IntBody(s)[i])

IntValue(s) ==
    IF s # <<>> /\ s[1] = "-" THEN 0 - DecVal(IntBody(s)) ELSE DecVal(IntBody(s))

SetMax(S) == CHOOSE x \in S : \A y \in S : y <= x

FormatVersion(n) == <<"v">> \o IntToStr(n)

V1 == <<"v", "1">>

\* the numbers _calculate_next_version collects from the labels
VersionNumbers(existing_versions) ==
    { IntValue(StripV(existing_versions[i])) :
        i \in { j \in DOMAIN existing_versions : IntParses(StripV(existing_versions[j])) } }

\* a plausible slip: count the labels instead of taking the highest number
CalculateNextVersionByCount(existing_versions) ==
    IF existing_versions = <<>> THEN V1
    ELSE IF VersionNumbers(existing_versions) # {}
         THEN FormatVersion(Cardinality(VersionNumbers(existing_versions)) + 1)
         ELSE V1

\* a plausible slip: the highest number itself, the + 1 forgotten
CalculateNextVersionNoIncrement(existing_versions) ==
    IF existing_versions = <<>> THEN V1
    ELSE IF VersionNumbers(existing_versions) # {}
         THEN FormatVersion(SetMax(VersionNumbers(existing_versions)))
         ELSE V1

\* DatasetManager._calculate_next_version
CalculateNextVersion(existing_versions) ==
    IF existing_versions = <<>> THEN V1
    ELSE IF VersionNumbers(existing_versions) # {}
         THEN FormatVersion(SetMax(VersionNumbers(existing_versions)) + 1)
         ELSE V1

(***************************************************************************)
(* MetaStore.  Each operation is one transaction (db.atomic()): it is an   *)
(* operator from the database before to its outcome and the database       *)
(* after; an exception leaves the database as it was (rollback).  A db is  *)
(* [datasets, versions, blocks, clock].                                    *)
(***************************************************************************)
DB == [datasets |-> datasets, versions |-> versions, blocks |-> blocks, clock |-> clock]

\* dataclass BlockInfo
BlockInfo(block_id, size_bytes, row_count) ==
    [block_id |-> block_id, size_bytes |-> size_bytes, row_count |-> row_count]

RECURSIVE SumRowCount(_)
SumRowCount(bs) == IF bs = <<>> THEN 0 ELSE bs[1].row_count + SumRowCount(Tail(bs))

RECURSIVE SumSizeBytes(_)
SumSizeBytes(bs) == IF bs = <<>> THEN 0 ELSE bs[1].size_bytes + SumSizeBytes(Tail(bs))

\* MetaStore._get_version_obj: the Version rows with this key (none or one)
GetVersionObj(db, ds, version) ==
    IF ds \notin db.datasets THEN {}
    ELSE { v \in db.versions : v.ds = ds /\ v.version = version }

\* version_obj.blocks: the Block rows whose foreign key is this version
BlocksOf(db, ds, version) == { b \in db.blocks : b.ds = ds /\ b.version = version }

\* .order_by(Block.block_number)
RECURSIVE OrderByBlockNumber(_)
OrderByBlockNumber(rows) ==
    IF rows = {} THEN <<>>
    ELSE LET first == CHOOSE b \in rows : \A c \in rows : b.block_number <= c.block_number
         IN <<first>> \o OrderByBlockNumber(rows \ {first})

\* MetaStore._version_to_info
VersionToInfo(db, v) ==
    LET ordered == OrderByBlockNumber(BlocksOf(db, v.ds, v.version))
    IN [ds |-> v.ds, version |-> v.version, row_count |-> v.row_count,
        file_count |-> v.file_count, size_bytes |-> v.size_bytes,
        schema |-> v.schema, created_at |-> v.created_at,
        block_ids |-> [i \in 1..Len(ordered) |-> ordered[i].block_id]]

\* a plausible slip: enumerate(blocks, 1), the positions counted from one
NewBlockRowsOneBased(ds, version, block_infos, first) ==
    { [ds |-> ds, version |-> version, block_number |-> first + i,
       block_id |-> block_infos[i].block_id, size_bytes |-> block_infos[i].size_bytes,
       row_count |-> block_infos[i].row_count] : i \in DOMAIN block_infos }

\* the Block rows Block.create makes for block_infos at positions first, first+1, ...
NewBlockRows(ds, version, block_infos, first) ==
    { [ds |-> ds, version |-> version, block_number |-> first + (i - 1),
       block_id |-> block_infos[i].block_id, size_bytes |-> block_infos[i].size_bytes,
       row_count |-> block_infos[i].row_count] : i \in DOMAIN block_infos }

\* the unique index (version, block_number) of Block
BlockNumbersUnique(rows) ==
    \A b, c \in rows :
        (b.ds = c.ds /\ b.version = c.version /\ b.block_number = c.block_number) => b = c

\* a plausible slip: no check for an existing dataset, so that the insert runs
\* into the unique index (namespace, name) of Dataset and is rolled back
CreateDatasetWithVersionNoCheck(db, ds, version, block_infos, schema) ==
    IF ds \in db.datasets
    THEN [err |-> "IntegrityError", db |-> db]
    ELSE [err |-> "none",
          db |-> [datasets |-> db.datasets \cup {ds},
                  versions |-> db.versions \cup
                      {[ds |-> ds, version |-> version,
                        row_count |-> SumRowCount(block_infos),
                        file_count |-> Len(block_infos),
                        size_bytes |-> SumSizeBytes(block_infos),
                        schema |-> schema, created_at |-> db.clock]},
                  blocks |-> db.blocks \cup NewBlockRows(ds, version, block_infos, 0),
                  clock |-> db.clock + 1]]

\* MetaStore.create_dataset_with_version
CreateDatasetWithVersion(db, ds, version, block_infos, schema) ==
    IF ds \in db.datasets
    THEN [err |-> "AlreadyExists", db |-> db]
    ELSE LET version_obj == [ds |-> ds, version |-> version,
                             row_count |-> SumRowCount(block_infos),
                             file_count |-> Len(block_infos),
                             size_bytes |-> SumSizeBytes(block_infos),
                             schema |-> schema, created_at |-> db.clock]
         IN [err |-> "none",
             db |-> [datasets |-> db.datasets \cup {ds},
                     versions |-> db.versions \cup {version_obj},
                     blocks |-> db.blocks \cup NewBlockRows(ds, version, block_infos, 0),
                     clock |-> db.clock + 1]]

\* a plausible slip: the counters of the new blocks alone, the base forgotten
AddVersionCountersFromNew(base_ver, existing_blocks, new_blocks) ==
    [row_count |-> SumRowCount(new_blocks),
     size_bytes |-> SumSizeBytes(new_blocks),
     file_count |-> Len(existing_blocks) + Len(new_blocks)]

\* the counters add_version gives the new version
AddVersionCounters(base_ver, existing_blocks, new_blocks) ==
    [row_count |-> base_ver.row_count + SumRowCount(new_blocks),
     size_bytes |-> base_ver.size_bytes + SumSizeBytes(new_blocks),
     file_count |-> Len(existing_blocks) + Len(new_blocks)]

\* a plausible slip: the base blocks copied in reverse order
CopiedBlockRowsReversed(ds, new_version, existing_blocks) ==
    { [ds |-> ds, version |-> new_version,
       block_number |-> Len(existing_blocks) - i,
       block_id |-> existing_blocks[i].block_id,
       size_bytes |-> existing_blocks[i].size_bytes,
       row_count |-> existing_blocks[i].row_count] : i \in DOMAIN existing_blocks }

\* the Block rows add_version copies from the base version, positions kept
CopiedBlockRows(ds, new_version, existing_blocks) ==
    { [ds |-> ds, version |-> new_version,
       block_number |-> existing_blocks[i].block_number,
       block_id |-> existing_blocks[i].block_id,
       size_bytes |-> existing_blocks[i].size_bytes,
       row_count |-> existing_blocks[i].row_count] : i \in DOMAIN existing_blocks }

\* a plausible slip: the Block rows of the base are given to the new version
\* (an UPDATE of their foreign key) instead of being copied
AddVersionMovingBlocks(db, ds, base_version, new_version, new_blocks) ==
    IF GetVersionObj(db, ds, base_version) = {}
    THEN [err |-> "NotFound", db |-> db]
    ELSE LET base_ver == CHOOSE v \in GetVersionObj(db, ds, base_version) : TRUE
             existing_blocks == OrderByBlockNumber(BlocksOf(db, ds, base_version))
             c == AddVersionCounters(base_ver, existing_blocks, new_blocks)
             version_obj == [ds |-> ds, version |-> new_version,
                             row_count |-> c.row_count, file_count |-> c.file_count,
                             size_bytes |-> c.size_bytes, schema |-> base_ver.schema,
                             created_at |-> db.clock]
             rows == CopiedBlockRows(ds, new_version, existing_blocks)
                       \cup NewBlockRows(ds, new_version, new_blocks, Len(existing_blocks))
         IN IF GetVersionObj(db, ds, new_version) # {}
            THEN [err |-> "IntegrityError", db |-> db]
            ELSE [err |-> "none",
                  db |-> [db EXCEPT !.versions = @ \cup {version_obj},
                                    !.blocks = (@ \ BlocksOf(db, ds, base_version)) \cup rows,
                                    !.clock = @ + 1]]

\* a plausible slip: the check of the base version comes after the insert of
\* the new Version row and outside the transaction
AddVersionNoBaseCheck(db, ds, base_version, new_version, new_blocks) ==
    LET version_obj == [ds |-> ds, version |-> new_version,
                        row_count |-> SumRowCount(new_blocks),
                        file_count |-> Len(new_blocks),
                        size_bytes |-> SumSizeBytes(new_blocks), schema |-> "",
                        created_at |-> db.clock]
    IN IF GetVersionObj(db, ds, base_version) = {}
       THEN [err |-> "NotFound",
             db |-> IF ds \in db.datasets /\ GetVersionObj(db, ds, new_version) = {}
                    THEN [db EXCEPT !.versions = @ \cup {version_obj}, !.clock = @ + 1]
                    ELSE db]
       ELSE LET base_ver == CHOOSE v \in GetVersionObj(db, ds, base_version) : TRUE
                existing_blocks == OrderByBlockNumber(BlocksOf(db, ds, base_version))
                c == AddVersionCounters(base_ver, existing_blocks, new_blocks)
                rows == CopiedBlockRows(ds, new_version, existing_blocks)
                          \cup NewBlockRows(ds, new_version, new_blocks, Len(existing_blocks))
            IN IF GetVersionObj(db, ds, new_version) # {}
               THEN [err |-> "IntegrityError", db |-> db]
               ELSE [err |-> "none",
                     db |-> [db EXCEPT !.versions = @ \cup
                                 {[version_obj EXCEPT !.row_count = c.row_count,
                                                      !.file_count = c.file_count,
                                                      !.size_bytes = c.size_bytes,
                                                      !.schema = base_ver.schema]},
                                       !.blocks = @ \cup rows,
                                       !.clock = @ + 1]]

\* a plausible slip: schema_json is not passed on to the new version
AddVersionWithoutSchema(db, ds, base_version, new_version, new_blocks) ==
    IF GetVersionObj(db, ds, base_version) = {}
    THEN [err |-> "NotFound", db |-> db]
    ELSE LET base_ver == CHOOSE v \in GetVersionObj(db, ds, base_version) : TRUE
             existing_blocks == OrderByBlockNumber(BlocksOf(db, ds, base_version))
             c == AddVersionCounters(base_ver, existing_blocks, new_blocks)
             version_obj == [ds |-> ds, version |-> new_version,
                             row_count |-> c.row_count, file_count |-> c.file_count,
                             size_bytes |-> c.size_bytes, schema |-> "",
                             created_at |-> db.clock]
             rows == CopiedBlockRows(ds, new_version, existing_blocks)
                       \cup NewBlockRows(ds, new_version, new_blocks, Len(existing_blocks))
         IN IF \/ GetVersionObj(db, ds, new_version) # {}
               \/ Cardinality(rows) # Len(existing_blocks) + Len(new_blocks)
               \/ ~BlockNumbersUnique(rows)
            THEN [err |-> "IntegrityError", db |-> db]
            ELSE [err |-> "none",
                  db |-> [db EXCEPT !.versions = @ \cup {version_obj},
                                    !.blocks = @ \cup rows,
                                    !.clock = @ + 1]]

\* MetaStore.add_version
AddVersion(db, ds, base_version, new_version, new_blocks) ==
    IF GetVersionObj(db, ds, base_version) = {}
    THEN [err |-> "NotFound", db |-> db]
    ELSE LET base_ver == CHOOSE v \in GetVersionObj(db, ds, base_version) : TRUE
             existing_blocks == OrderByBlockNumber(BlocksOf(db, ds, base_version))
             c == AddVersionCounters(base_ver, existing_blocks, new_blocks)
             version_obj == [ds |-> ds, version |-> new_version,
                             row_count |-> c.row_count, file_count |-> c.file_count,
                             size_bytes |-> c.size_bytes, schema |-> base_ver.schema,
                             created_at |-> db.clock]
             rows == CopiedBlockRows(ds, new_version, existing_blocks)
                       \cup NewBlockRows(ds, new_version, new_blocks, Len(existing_blocks))
         IN IF \/ GetVersionObj(db, ds, new_version) # {}
               \/ Cardinality(rows) # Len(existing_blocks) + Len(new_blocks)
               \/ ~BlockNumbersUnique(rows)
            THEN [err |-> "IntegrityError", db |-> db]
            ELSE [err |-> "none",
                  db |-> [db EXCEPT !.versions = @ \cup {version_obj},
                                    !.blocks = @ \cup rows,
                                    !.clock = @ + 1]]

\* a plausible slip: the number of files updated, the rows and bytes forgotten
ExtendedVersionRowFilesOnly(version_obj, new_blocks) ==
    [version_obj EXCEPT !.file_count = @ + Len(new_blocks)]

\* the Version row after extend_version's in-place update of the counters
ExtendedVersionRow(version_obj, new_blocks) ==
    [version_obj EXCEPT !.row_count = @ + SumRowCount(new_blocks),
                        !.size_bytes = @ + SumSizeBytes(new_blocks),
                        !.file_count = @ + Len(new_blocks)]

\* MetaStore.extend_version
ExtendVersion(db, ds, version, new_blocks) ==
    IF GetVersionObj(db, ds, version) = {}
    THEN [err |-> "NotFound", db |-> db]
    ELSE LET version_obj == CHOOSE v \in GetVersionObj(db, ds, version) : TRUE
             current_blocks == BlocksOf(db, ds, version)
             rows == NewBlockRows(ds, version, new_blocks, Cardinality(current_blocks))
         IN IF \/ Cardinality(rows) # Len(new_blocks)
               \/ ~BlockNumbersUnique(current_blocks \cup rows)
            THEN [err |-> "IntegrityError", db |-> db]
            ELSE [err |-> "none",
                  db |-> [db EXCEPT !.versions = (@ \ {version_obj})
                                        \cup {ExtendedVersionRow(version_obj, new_blocks)},
                                    !.blocks = @ \cup rows]]

\* MetaStore.get_version: the VersionInfo, or the empty set for None
GetVersion(db, ds, version) ==
    { VersionToInfo(db, v) : v \in GetVersionObj(db, ds, version) }

\* a plausible slip: the oldest version first
RECURSIVE OrderByCreatedAsc(_)
OrderByCreatedAsc(rows) ==
    IF rows = {} THEN <<>>
    ELSE LET first == CHOOSE v \in rows : \A w \in rows : v.created_at <= w.created_at
         IN <<first.version>> \o OrderByCreatedAsc(rows \ {first})

\* .order_by(Version.created_at.desc())
RECURSIVE OrderByCreatedDesc(_)
OrderByCreatedDesc(rows) ==
    IF rows = {} THEN <<>>
    ELSE LET first == CHOOSE v \in rows : \A w \in rows : v.created_at >= w.created_at
         IN <<first.version>> \o OrderByCreatedDesc(rows \ {first})

\* MetaStore.list_versions
ListVersions(db, ds) ==
    IF ds \notin db.datasets THEN <<>>
    ELSE OrderByCreatedDesc({ v \in db.versions : v.ds = ds })

\* a plausible slip: delete_dataset reports success without looking the row up
DeleteDatasetAlwaysDeleted(db, ds) ==
    [deleted |-> TRUE,
     db |-> [db EXCEPT !.datasets = @ \ {ds},
                       !.versions = { v \in @ : v.ds # ds },
                       !.blocks = { b \in @ : b.ds # ds }]]

\* MetaStore.delete_dataset: delete_instance(recursive=True)
DeleteDataset(db, ds) ==
    IF ds \notin db.datasets
    THEN [deleted |-> FALSE, db |-> db]
    ELSE [deleted |-> TRUE,
          db |-> [db EXCEPT !.datasets = @ \ {ds},
                            !.versions = { v \in @ : v.ds # ds },
                            !.blocks = { b \in @ : b.ds # ds }]]

\* a plausible slip: the Dataset row goes with its last version
DeleteVersionDroppingEmptyDataset(db, ds, version) ==
    IF GetVersionObj(db, ds, version) = {}
    THEN [deleted |-> FALSE, db |-> db]
    ELSE LET kept == { v \in db.versions : ~(v.ds = ds /\ v.version = version) }
         IN [deleted |-> TRUE,
             db |-> [db EXCEPT !.versions = kept,
                               !.blocks = { b \in @ : ~(b.ds = ds /\ b.version = version) },
                               !.datasets = IF \E v \in kept : v.ds = ds THEN @ ELSE @ \ {ds}]]

\* a plausible slip: the Block rows deleted by block identifier, those of
\* other versions that share a block included
DeleteVersionSharedRows(db, ds, version) ==
    IF GetVersionObj(db, ds, version) = {}
    THEN [deleted |-> FALSE, db |-> db]
    ELSE [deleted |-> TRUE,
          db |-> [db EXCEPT !.versions = { v \in @ : ~(v.ds = ds /\ v.version = version) },
                            !.blocks = { b \in @ :
                                ~(b.ds = ds /\ \E r \in BlocksOf(db, ds, version) :
                                                   r.block_id = b.block_id) }]]

\* MetaStore.delete_version: delete_instance(recursive=True)
DeleteVersion(db, ds, version) ==
    IF GetVersionObj(db, ds, version) = {}
    THEN [deleted |-> FALSE, db |-> db]
    ELSE [deleted |-> TRUE,
          db |-> [db EXCEPT !.versions = { v \in @ : ~(v.ds = ds /\ v.version = version) },
                            !.blocks = { b \in @ : ~(b.ds = ds /\ b.version = version) }]]

\* MetaStore.get_all_block_ids_for_dataset (SELECT DISTINCT: a set)
GetAllBlockIdsForDataset(db, ds) ==
    IF ds \notin db.datasets THEN {}
    ELSE { b.block_id : b \in { r \in db.blocks :
                                  r.ds = ds /\ \E v \in db.versions :
                                      v.ds = ds /\ v.version = r.version } }

(***************************************************************************)
(* DataStore (LocalDataStore): the payloads present, one per              *)
(* (namespace, dataset, block identifier).                                 *)
(***************************************************************************)
SameBlock(x, ds, block_id) == x.ds = ds /\ x.block_id = block_id

\* LocalDataStore.write_block: the file is (over)written
WriteBlock(st, ds, block_id, table) ==
    { x \in st : ~SameBlock(x, ds, block_id) }
        \cup {[ds |-> ds, block_id |-> block_id, table |-> table]}

\* a plausible slip: the path is not the one written, nothing is removed
DeleteBlockWrongPath(st, ds, block_id) == st

\* LocalDataStore.delete_block: removes the file when it exists
DeleteBlock(st, ds, block_id) == { x \in st : ~SameBlock(x, ds, block_id) }

Present(ds, block_id) == \E x \in store : SameBlock(x, ds, block_id)

\* the two implementations of DataStore
Backends == {"local", "azure"}

\* delete_block of the implementation be: LocalDataStore removes the file
\* when it exists; AzureDataStore calls delete_blob(), which raises
\* ResourceNotFoundError when there is no such blob
DeleteBlockOn(be, st, ds, block_id) ==
    IF be = "azure" /\ ~(\E x \in st : SameBlock(x, ds, block_id))
    THEN [err |-> "ResourceNotFound", st |-> st]
    ELSE [err |-> "none", st |-> DeleteBlock(st, ds, block_id)]

\* the payloads of block_ids that are present, in the order of block_ids
RECURSIVE PayloadRows(_, _, _)
PayloadRows(st, ds, block_ids) ==
    IF block_ids = <<>> THEN 0
    ELSE (CHOOSE x \in st : SameBlock(x, ds, block_ids[1])).table.rows
            + PayloadRows(st, ds, Tail(block_ids))

\* a plausible slip: the query built for the first path only
ReadBlocksFirstOnly(st, ds, block_ids) ==
    IF \E i \in DOMAIN block_ids : ~(\E x \in st : SameBlock(x, ds, block_ids[i]))
    THEN [err |-> "StorageFailure", rows |-> 0]
    ELSE [err |-> "none", rows |-> PayloadRows(st, ds, SubSeq(block_ids, 1, 1))]

\* read_blocks without filter, columns and limit: SELECT * FROM
\* read_parquet([paths]) gives the rows of every listed file; a missing file
\* makes the query fail.  The result is the number of rows.
ReadBlocks(st, ds, block_ids) ==
    IF \E i \in DOMAIN block_ids : ~(\E x \in st : SameBlock(x, ds, block_ids[i]))
    THEN [err |-> "StorageFailure", rows |-> 0]
    ELSE [err |-> "none", rows |-> PayloadRows(st, ds, block_ids)]

(***************************************************************************)
(* DatasetManager.  The locals of the running operation of a caller; pre   *)
(* is the metastore as it was when the operation began and trace the store *)
(* calls the operation has made so far (both are for stating properties).  *)
(***************************************************************************)
\* no read_blocks call is observed, no MigrationRunner is constructed
NoQuery == <<>>

NoRunner == <<>>

NoDataset == << <<>>, <<>> >>

EmptyDB == [datasets |-> {}, versions |-> {}, blocks |-> {}, clock |-> 0]

InitLoc ==
    [op |-> "none", name |-> <<>>, ds |-> NoDataset, version |-> <<>>, table |-> NoTable,
     create_new_version |-> FALSE, block_id |-> 0, size_bytes |-> 0,
     next_version |-> <<>>, version_block_ids |-> {}, remaining_block_ids |-> {},
     todo |-> {}, failed |-> {}, read_ids |-> <<>>, rows |-> 0,
     version_obj |-> {}, existing_blocks |-> <<>>,
     result |-> "none", ret |-> <<>>, pre |-> EmptyDB, pre_store |-> {}, trace |-> <<>>]

Call(name, block_id) == [call |-> name, block_id |-> block_id]

\* the version labels a caller names: those of the dataset, and one that no
\* version has
AbsentVersion == FormatVersion(0)

VersionInputs(ds) == { v.version : v \in { w \in versions : w.ds = ds } } \cup {AbsentVersion}

\* a plausible slip: the identifier of the previous block is given again
GenerateBlockIdRepeated == IF nextBlock = 0 THEN 1 ELSE nextBlock

\* DatasetManager._generate_block_id: a fresh identifier
GenerateBlockId == nextBlock + 1

SetDB(db) ==
    /\ datasets' = db.datasets
    /\ versions' = db.versions
    /\ blocks' = db.blocks
    /\ clock' = db.clock

Idle(p) == pc[p] = "idle"

\* name.split("/")
RECURSIVE Split(_, _)
Split(s, sep) ==
    IF s = <<>> THEN << <<>> >>
    ELSE LET rest == Split(Tail(s), sep)
         IN IF Head(s) = sep THEN << <<>> >> \o rest
            ELSE << <<Head(s)>> \o rest[1] >> \o Tail(rest)

\* a plausible slip: the check is "at least two parts", the first two are taken
ParseNameAtLeastTwo(name) ==
    LET parts == Split(name, "/")
    IN IF Len(parts) < 2 THEN [err |-> "InvalidName", ds |-> NoDataset]
       ELSE [err |-> "none", ds |-> <<parts[1], parts[2]>>]

\* DatasetManager._parse_name
ParseName(name) ==
    LET parts == Split(name, "/")
    IN IF Len(parts) # 2 THEN [err |-> "InvalidName", ds |-> NoDataset]
       ELSE [err |-> "none", ds |-> <<parts[1], parts[2]>>]

\* DatasetManager._parse_name_with_version
ParseNameWithVersion(name) ==
    LET parts == Split(name, "/")
    IN IF Len(parts) # 3 THEN [err |-> "InvalidName", ds |-> NoDataset, version |-> <<>>]
       ELSE [err |-> "none", ds |-> <<parts[1], parts[2]>>, version |-> parts[3]]

\* f"{namespace}/{dataset_name}"
DatasetName(ds) == ds[1] \o <<"/">> \o ds[2]

\* f"{namespace}/{dataset_name}/{version}"
QualifiedName(ds, version) == ds[1] \o <<"/">> \o ds[2] \o <<"/">> \o version

\* the operation raises before its first store call
Raise(p, op, name, err) ==
    /\ Idle(p)
    /\ loc' = [loc EXCEPT ![p] = [InitLoc EXCEPT !.op = op, !.name = name, !.result = err,
                                                 !.pre = DB, !.pre_store = store]]
    /\ pc' = [pc EXCEPT ![p] = "done"]
    /\ UNCHANGED <<datasets, versions, blocks, clock, store, nextBlock, issued, cnvIn, cnvOut, backend, query, runner>>

\* create, up to write_block (manager.py 205-215)
CreateWrite(p, name, ds, table) ==
    /\ Idle(p)
    /\ nextBlock < MaxBlocks
    /\ nextBlock' = nextBlock + 1
    /\ store' = WriteBlock(store, ds, GenerateBlockId, table)
    /\ loc' = [loc EXCEPT ![p] = [InitLoc EXCEPT !.op = "create", !.name = name, !.ds = ds,
                                     !.table = table,
                                     !.block_id = GenerateBlockId, !.size_bytes = table.bytes,
                                     !.pre = DB,
                                     !.trace = <<Call("write_block", GenerateBlockId)>>]]
    /\ pc' = [pc EXCEPT ![p] = "create_meta"]
    /\ UNCHANGED <<datasets, versions, blocks, clock, issued, cnvIn, cnvOut, backend, query, runner>>

\* create, create_dataset_with_version and return (manager.py 217-233)
CreateMeta(p) ==
    /\ pc[p] = "create_meta"
    /\ LET l == loc[p]
           r == CreateDatasetWithVersion(DB, l.ds, V1,
                    <<BlockInfo(l.block_id, l.size_bytes, l.table.rows)>>, l.table.schema)
       IN /\ SetDB(r.db)
          /\ loc' = [loc EXCEPT ![p] =
                        [l EXCEPT !.result = IF r.err = "none" THEN "ok" ELSE r.err,
                                  !.ret = IF r.err = "none" THEN QualifiedName(l.ds, V1) ELSE <<>>,
                                  !.trace = Append(@, Call("create_dataset_with_version", 0))]]
    /\ pc' = [pc EXCEPT ![p] = "done"]
    /\ UNCHANGED <<store, nextBlock, issued, cnvIn, cnvOut, backend, query, runner>>

\* extend, up to write_block (manager.py 260-275)
ExtendWrite(p, name, ds, version, table, create_new_version) ==
    /\ Idle(p)
    /\ nextBlock < MaxBlocks
    /\ nextBlock' = nextBlock + 1
    /\ store' = WriteBlock(store, ds, GenerateBlockId, table)
    /\ loc' = [loc EXCEPT ![p] = [InitLoc EXCEPT !.op = "extend", !.name = name, !.ds = ds,
                                     !.version = version, !.table = table,
                                     !.create_new_version = create_new_version,
                                     !.block_id = GenerateBlockId, !.size_bytes = table.bytes,
                                     !.pre = DB,
                                     !.trace = <<Call("write_block", GenerateBlockId)>>]]
    /\ pc' = [pc EXCEPT ![p] = IF create_new_version THEN "extend_list" ELSE "extend_inplace"]
    /\ UNCHANGED <<datasets, versions, blocks, clock, issued, cnvIn, cnvOut, backend, query, runner>>

\* extend: list_versions and _calculate_next_version (manager.py 279-280)
ExtendList(p) ==
    /\ pc[p] = "extend_list"
    /\ loc' = [loc EXCEPT ![p].next_version = CalculateNextVersion(ListVersions(DB, loc[p].ds)),
                          ![p].trace = Append(@, Call("list_versions", 0))]
    /\ pc' = [pc EXCEPT ![p] = "extend_add"]
    /\ UNCHANGED <<datasets, versions, blocks, clock, store, nextBlock, issued, cnvIn, cnvOut, backend, query, runner>>

\* extend: add_version and return (manager.py 282-291)
ExtendAdd(p) ==
    /\ pc[p] = "extend_add"
    /\ LET l == loc[p]
           r == AddVersion(DB, l.ds, l.version, l.next_version,
                    <<BlockInfo(l.block_id, l.size_bytes, l.table.rows)>>)
       IN /\ SetDB(r.db)
          /\ loc' = [loc EXCEPT ![p] =
                        [l EXCEPT !.result = IF r.err = "none" THEN "ok" ELSE r.err,
                                  !.ret = IF r.err = "none" THEN QualifiedName(l.ds, l.next_version)
                                           ELSE <<>>,
                                  !.trace = Append(@, Call("add_version", 0))]]
          /\ issued' = IF r.err = "none"
                        THEN [issued EXCEPT ![l.ds] = Append(@, l.next_version)]
                        ELSE issued
    /\ pc' = [pc EXCEPT ![p] = "done"]
    /\ UNCHANGED <<store, nextBlock, cnvIn, cnvOut, backend, query, runner>>

\* extend: extend_version and return (manager.py 294-301)
ExtendInPlace(p) ==
    /\ pc[p] = "extend_inplace"
    /\ LET l == loc[p]
           r == ExtendVersion(DB, l.ds, l.version,
                    <<BlockInfo(l.block_id, l.size_bytes, l.table.rows)>>)
       IN /\ SetDB(r.db)
          /\ loc' = [loc EXCEPT ![p] =
                        [l EXCEPT !.result = IF r.err = "none" THEN "ok" ELSE r.err,
                                  !.ret = IF r.err = "none" THEN QualifiedName(l.ds, l.version) ELSE <<>>,
                                  !.trace = Append(@, Call("extend_version", 0))]]
    /\ pc' = [pc EXCEPT ![p] = "done"]
    /\ UNCHANGED <<store, nextBlock, issued, cnvIn, cnvOut, backend, query, runner>>

\* erase of a dataset: get_all_block_ids_for_dataset (manager.py 370-377)
EraseDatasetEnumerate(p, name, ds) ==
    /\ Idle(p)
    /\ LET all_block_ids == GetAllBlockIdsForDataset(DB, ds)
       IN /\ loc' = [loc EXCEPT ![p] = [InitLoc EXCEPT !.op = "erase_dataset", !.name = name, !.ds = ds,
                                           !.todo = all_block_ids, !.pre = DB,
                                           !.pre_store = store,
                                           !.trace = <<Call("get_all_block_ids_for_dataset", 0)>>]]
          /\ pc' = [pc EXCEPT ![p] = IF all_block_ids = {} THEN "ed_delete_dataset"
                                     ELSE "ed_delete_blocks"]
    /\ UNCHANGED <<datasets, versions, blocks, clock, store, nextBlock, issued, cnvIn, cnvOut, backend, query, runner>>

\* a plausible slip: no try/except around delete_block, the error ends erase
AfterDeleteBlockRaise(err, continue) ==
    IF err = "none" THEN continue ELSE [pc |-> "done", result |-> err]

\* try: delete_block(...) except Exception: pass (manager.py 381-385 and
\* 422-426): the loop goes on as it would have without the error
AfterDeleteBlock(err, continue) == continue

\* a delete_block call that could not be completed (StorageFailure)
DeleteBlockFailure(st) == [err |-> "StorageFailure", st |-> st]

\* erase of a dataset: the rest of one turn of the loop, r being what
\* delete_block did
EraseDatasetDeleted(p, block_id, r) ==
    LET to == AfterDeleteBlock(r.err,
                  [pc |-> IF loc[p].todo = {block_id} THEN "ed_delete_dataset"
                          ELSE "ed_delete_blocks",
                   result |-> loc[p].result])
    IN /\ store' = r.st
       /\ loc' = [loc EXCEPT ![p].todo = @ \ {block_id},
                             ![p].failed = IF r.err = "none" THEN @ ELSE @ \cup {block_id},
                             ![p].result = to.result,
                             ![p].trace = Append(@, Call("delete_block", block_id))]
       /\ pc' = [pc EXCEPT ![p] = to.pc]
       /\ UNCHANGED <<datasets, versions, blocks, clock, nextBlock, issued, cnvIn, cnvOut, backend, query, runner>>

\* erase of a dataset: one turn of the delete_block loop (manager.py 380-385);
\* the list comes from the database in no stated order
EraseDatasetDeleteBlock(p) ==
    /\ pc[p] = "ed_delete_blocks"
    /\ \E block_id \in loc[p].todo :
          EraseDatasetDeleted(p, block_id, DeleteBlockOn(backend, store, loc[p].ds, block_id))

\* the same turn with a delete_block that fails
EraseDatasetDeleteBlockFails(p) ==
    /\ pc[p] = "ed_delete_blocks"
    /\ \E block_id \in loc[p].todo :
          EraseDatasetDeleted(p, block_id, DeleteBlockFailure(store))

\* erase of a dataset: delete_dataset and return (manager.py 388-390)
EraseDatasetDeleteMeta(p) ==
    /\ pc[p] = "ed_delete_dataset"
    /\ LET r == DeleteDataset(DB, loc[p].ds)
       IN /\ SetDB(r.db)
          /\ loc' = [loc EXCEPT ![p].result = IF r.deleted THEN "ok" ELSE "NotFound",
                                ![p].trace = Append(@, Call("delete_dataset", 0))]
          /\ issued' = [issued EXCEPT ![loc[p].ds] = <<>>]
    /\ pc' = [pc EXCEPT ![p] = "done"]
    /\ UNCHANGED <<store, nextBlock, cnvIn, cnvOut, backend, query, runner>>

\* erase of a version: get_version (manager.py 392-402)
EraseVersionGet(p, name, ds, version) ==
    /\ Idle(p)
    /\ LET version_info == GetVersion(DB, ds, version)
           l == [InitLoc EXCEPT !.op = "erase_version", !.name = name, !.ds = ds,
                                !.version = version, !.pre_store = store,
                                !.pre = DB, !.trace = <<Call("get_version", 0)>>]
       IN IF version_info = {}
          THEN /\ loc' = [loc EXCEPT ![p] = [l EXCEPT !.result = "NotFound"]]
               /\ pc' = [pc EXCEPT ![p] = "done"]
          ELSE /\ loc' = [loc EXCEPT ![p] = [l EXCEPT !.version_block_ids =
                              LET info == CHOOSE i \in version_info : TRUE
                              IN { info.block_ids[k] : k \in DOMAIN info.block_ids }]]
               /\ pc' = [pc EXCEPT ![p] = "ev_get_all"]
    /\ UNCHANGED <<datasets, versions, blocks, clock, store, nextBlock, issued, cnvIn, cnvOut, backend, query, runner>>

\* erase of a version: get_all_block_ids_for_dataset, result unused (manager.py 405-408)
EraseVersionGetAll(p) ==
    /\ pc[p] = "ev_get_all"
    /\ loc' = [loc EXCEPT ![p].trace = Append(@, Call("get_all_block_ids_for_dataset", 0))]
    /\ pc' = [pc EXCEPT ![p] = "ev_delete_version"]
    /\ UNCHANGED <<datasets, versions, blocks, clock, store, nextBlock, issued, cnvIn, cnvOut, backend, query, runner>>

\* erase of a version: delete_version (manager.py 411)
EraseVersionDeleteMeta(p) ==
    /\ pc[p] = "ev_delete_version"
    /\ SetDB(DeleteVersion(DB, loc[p].ds, loc[p].version).db)
    /\ loc' = [loc EXCEPT ![p].trace = Append(@, Call("delete_version", 0))]
    /\ pc' = [pc EXCEPT ![p] = "ev_remaining"]
    /\ UNCHANGED <<store, nextBlock, issued, cnvIn, cnvOut, backend, query, runner>>

\* a plausible slip: delete every block of the erased version
BlocksToDeleteAll(version_block_ids, remaining_block_ids) == version_block_ids

\* a plausible slip: the operands of the set difference exchanged
BlocksToDeleteSwapped(version_block_ids, remaining_block_ids) ==
    remaining_block_ids \ version_block_ids

\* blocks_to_delete (manager.py 419)
BlocksToDelete(version_block_ids, remaining_block_ids) ==
    version_block_ids \ remaining_block_ids

\* erase of a version: the remaining identifiers and blocks_to_delete
\* (manager.py 414-419); returns when there is nothing to delete
EraseVersionRemaining(p) ==
    /\ pc[p] = "ev_remaining"
    /\ LET remaining_block_ids == GetAllBlockIdsForDataset(DB, loc[p].ds)
           blocks_to_delete == BlocksToDelete(loc[p].version_block_ids, remaining_block_ids)
       IN /\ loc' = [loc EXCEPT ![p].remaining_block_ids = remaining_block_ids,
                                ![p].todo = blocks_to_delete,
                                ![p].result = IF blocks_to_delete = {} THEN "ok" ELSE @,
                                ![p].trace = Append(@, Call("get_all_block_ids_for_dataset", 0))]
          /\ pc' = [pc EXCEPT ![p] = IF blocks_to_delete = {} THEN "done"
                                     ELSE "ev_delete_blocks"]
    /\ UNCHANGED <<datasets, versions, blocks, clock, store, nextBlock, issued, cnvIn, cnvOut, backend, query, runner>>

\* erase of a version: the rest of one turn of the loop, r being what
\* delete_block did
EraseVersionDeleted(p, block_id, r) ==
    LET to == AfterDeleteBlock(r.err,
                  [pc |-> IF loc[p].todo = {block_id} THEN "done" ELSE "ev_delete_blocks",
                   result |-> IF loc[p].todo = {block_id} THEN "ok" ELSE loc[p].result])
    IN /\ store' = r.st
       /\ loc' = [loc EXCEPT ![p].todo = @ \ {block_id},
                             ![p].failed = IF r.err = "none" THEN @ ELSE @ \cup {block_id},
                             ![p].result = to.result,
                             ![p].trace = Append(@, Call("delete_block", block_id))]
       /\ pc' = [pc EXCEPT ![p] = to.pc]
       /\ UNCHANGED <<datasets, versions, blocks, clock, nextBlock, issued, cnvIn, cnvOut, backend, query, runner>>

\* erase of a version: one turn of the delete_block loop (manager.py 421-426);
\* a Python set is iterated in no stated order
EraseVersionDeleteBlock(p) ==
    /\ pc[p] = "ev_delete_blocks"
    /\ \E block_id \in loc[p].todo :
          EraseVersionDeleted(p, block_id, DeleteBlockOn(backend, store, loc[p].ds, block_id))

\* the same turn with a delete_block that fails
EraseVersionDeleteBlockFails(p) ==
    /\ pc[p] = "ev_delete_blocks"
    /\ \E block_id \in loc[p].todo :
          EraseVersionDeleted(p, block_id, DeleteBlockFailure(store))

\* a plausible slip: the check for an empty block list left out
LoadNoBlockCheck(p, name, ds, version) ==
    /\ Idle(p)
    /\ LET version_info == GetVersion(DB, ds, version)
           l == [InitLoc EXCEPT !.op = "load", !.name = name, !.ds = ds, !.version = version,
                                !.pre = DB, !.trace = <<Call("get_version", 0)>>]
       IN IF version_info = {}
          THEN loc' = [loc EXCEPT ![p] = [l EXCEPT !.result = "NotFound"]]
          ELSE LET info == CHOOSE i \in version_info : TRUE
                   r == ReadBlocks(store, ds, info.block_ids)
               IN loc' = [loc EXCEPT ![p] =
                             [l EXCEPT !.read_ids = info.block_ids,
                                       !.rows = r.rows,
                                       !.result = IF r.err = "none" THEN "ok" ELSE r.err,
                                       !.trace = Append(@, Call("read_blocks", 0))]]
    /\ pc' = [pc EXCEPT ![p] = "done"]
    /\ UNCHANGED <<datasets, versions, blocks, clock, store, nextBlock, issued, cnvIn, cnvOut, backend, query, runner>>

\* load without columns, filter and limit (manager.py 329-350)
Load(p, name, ds, version) ==
    /\ Idle(p)
    /\ LET version_info == GetVersion(DB, ds, version)
           l == [InitLoc EXCEPT !.op = "load", !.name = name, !.ds = ds, !.version = version,
                                !.pre = DB, !.trace = <<Call("get_version", 0)>>]
       IN IF version_info = {}
          THEN loc' = [loc EXCEPT ![p] = [l EXCEPT !.result = "NotFound"]]
          ELSE LET info == CHOOSE i \in version_info : TRUE
                   r == ReadBlocks(store, ds, info.block_ids)
               IN IF info.block_ids = <<>>
                  THEN loc' = [loc EXCEPT ![p] = [l EXCEPT !.result = "NoDataBlocks"]]
                  ELSE loc' = [loc EXCEPT ![p] =
                                  [l EXCEPT !.read_ids = info.block_ids,
                                            !.rows = r.rows,
                                            !.result = IF r.err = "none" THEN "ok" ELSE r.err,
                                            !.trace = Append(@, Call("read_blocks", 0))]]
    /\ pc' = [pc EXCEPT ![p] = "done"]
    /\ UNCHANGED <<datasets, versions, blocks, clock, store, nextBlock, issued, cnvIn, cnvOut, backend, query, runner>>

\* describe (manager.py 458-501): the text gives the row count and the block
\* identifiers in position order
Describe(p, name, ds, version) ==
    /\ Idle(p)
    /\ LET version_info == GetVersion(DB, ds, version)
           l == [InitLoc EXCEPT !.op = "describe", !.name = name, !.ds = ds,
                                !.version = version,
                                !.pre = DB, !.trace = <<Call("get_version", 0)>>]
       IN IF version_info = {}
          THEN loc' = [loc EXCEPT ![p] = [l EXCEPT !.result = "NotFound"]]
          ELSE LET info == CHOOSE i \in version_info : TRUE
               IN loc' = [loc EXCEPT ![p] = [l EXCEPT !.read_ids = info.block_ids,
                                                      !.rows = info.row_count,
                                                      !.result = "ok"]]
    /\ pc' = [pc EXCEPT ![p] = "done"]
    /\ UNCHANGED <<datasets, versions, blocks, clock, store, nextBlock, issued, cnvIn, cnvOut, backend, query, runner>>

\* create(name, description, data) (manager.py 205-233)
Create(p, name, table) ==
    LET r == ParseName(name)
    IN IF r.err # "none" THEN Raise(p, "create", name, r.err)
       ELSE CreateWrite(p, name, r.ds, table)

\* extend(name, data, create_new_version) (manager.py 260-301)
Extend(p, name, table, create_new_version) ==
    LET r == ParseNameWithVersion(name)
    IN IF r.err # "none" THEN Raise(p, "extend", name, r.err)
       ELSE ExtendWrite(p, name, r.ds, r.version, table, create_new_version)

\* load(name) (manager.py 329-350)
LoadName(p, name) ==
    LET r == ParseNameWithVersion(name)
    IN IF r.err # "none" THEN Raise(p, "load", name, r.err)
       ELSE Load(p, name, r.ds, r.version)

\* describe(name) (manager.py 458-501)
DescribeName(p, name) ==
    LET r == ParseNameWithVersion(name)
    IN IF r.err # "none" THEN Raise(p, "describe", name, r.err)
       ELSE Describe(p, name, r.ds, r.version)

\* erase(name) (manager.py 368-431)
Erase(p, name) ==
    LET parts == Split(name, "/")
    IN IF Len(parts) = 2 THEN EraseDatasetEnumerate(p, name, <<parts[1], parts[2]>>)
       ELSE IF Len(parts) = 3
            THEN EraseVersionGet(p, name, <<parts[1], parts[2]>>, parts[3])
            ELSE Raise(p, "erase", name, "InvalidName")

\* the operation has returned or raised; the caller is free for the next one
Return(p) ==
    /\ pc[p] = "done"
    /\ pc' = [pc EXCEPT ![p] = "idle"]
    /\ loc' = [loc EXCEPT ![p] = InitLoc]
    /\ UNCHANGED <<datasets, versions, blocks, clock, store, nextBlock, issued, cnvIn, cnvOut, backend, query, runner>>

InitMain ==
    /\ datasets = {}
    /\ versions = {}
    /\ blocks = {}
    /\ clock = 0
    /\ store = {}
    /\ nextBlock = 0
    /\ pc = [p \in Procs |-> "idle"]
    /\ loc = [p \in Procs |-> InitLoc]
    /\ issued = [ds \in AllDatasetKeys |-> <<>>]

Init ==
    /\ InitMain
    /\ cnvIn = <<>>
    /\ cnvOut = <<>>
    /\ backend = "local"
    /\ query = NoQuery
    /\ runner = NoRunner

\* the names of the versions a caller names for the dataset ds
VersionNames(ds) == { QualifiedName(ds, version) : version \in VersionInputs(ds) }

\* a step of a running operation that follows its first store call
Continue(p) ==
    \/ CreateMeta(p)
    \/ ExtendList(p)
    \/ ExtendAdd(p)
    \/ ExtendInPlace(p)
    \/ EraseDatasetDeleteBlock(p)
    \/ EraseDatasetDeleteMeta(p)
    \/ EraseVersionGetAll(p)
    \/ EraseVersionDeleteMeta(p)
    \/ EraseVersionRemaining(p)
    \/ EraseVersionDeleteBlock(p)
    \/ Return(p)

\* the operations of the manager on the datasets of keys with row batches of tables
ManagerStep(keys, tables) ==
    \E p \in Procs :
        \/ \E ds \in keys, table \in tables : Create(p, DatasetName(ds), table)
        \/ \E ds \in keys, table \in tables, cnv \in BOOLEAN :
              \E name \in VersionNames(ds) : Extend(p, name, table, cnv)
        \/ \E ds \in keys : Erase(p, DatasetName(ds))
        \/ \E ds \in keys : \E name \in VersionNames(ds) : Erase(p, name)
        \/ \E ds \in keys : \E name \in VersionNames(ds) : LoadName(p, name)
        \/ Continue(p)

\* one dataset, row batches of every kind
Next == ManagerStep(DatasetKeys, Tables)

Spec == Init /\ [][Next]_vars

\* two datasets, row batches of one kind
NextTwoDatasets == ManagerStep(AllDatasetKeys, OneTable)

SpecTwoDatasets == Init /\ [][NextTwoDatasets]_vars

(***************************************************************************)
(* _calculate_next_version called on its own: the input is any list of at  *)
(* most MaxLabels labels of LabelPool.                                     *)
(***************************************************************************)
LabelPool ==
    { <<"v", "1">>, <<"v", "2">>, <<"v", "3">>, <<"v", "9">>, <<"v", "1", "0">>,
      <<"v", "1", "9">>, <<"1">>, <<"v", "v", "2">>, <<"v", "0", "3">>,
      <<"v", "1", "v", "2">>, <<"b", "e", "t", "a">>, <<"v", "-", "5">>, <<>> }

LabelLists == UNION { [1..n -> LabelPool] : n \in 0..MaxLabels }

InitNextVersion ==
    /\ InitMain
    /\ cnvIn \in LabelLists
    /\ cnvOut = <<>>
    /\ backend = "local"
    /\ query = NoQuery
    /\ runner = NoRunner

\* one call of _calculate_next_version(cnvIn)
CalculateCall ==
    /\ cnvOut = <<>>
    /\ cnvOut' = CalculateNextVersion(cnvIn)
    /\ UNCHANGED <<datasets, versions, blocks, clock, store, nextBlock, pc, loc, issued, cnvIn, backend, query, runner>>

SpecNextVersion == InitNextVersion /\ [][CalculateCall]_vars

(***************************************************************************)
(* The MetaStore called directly, one call at a time, with block lists of  *)
(* any length up to MaxNewBlocks and labels the caller chooses.  A run     *)
(* passes at most MaxBlocks blocks and creates at most MaxBlocks versions. *)
(***************************************************************************)
MaxNewBlocks == 2

MetaLabels == { FormatVersion(1), FormatVersion(2) }

\* the lists of n BlockInfo a caller may pass, with fresh identifiers
BlockInfoLists(n) ==
    { [i \in 1..n |-> BlockInfo(nextBlock + i, ts[i].bytes, ts[i].rows)] : ts \in [1..n -> Tables] }

MetaCallLoc(op, ds, version, next_version, result) ==
    [InitLoc EXCEPT !.op = op, !.ds = ds, !.version = version,
                    !.next_version = next_version, !.result = result, !.pre = DB]

MetaCreate(p, ds, version, schema, n) ==
    /\ Idle(p)
    /\ nextBlock + n <= MaxBlocks
    /\ clock < MaxBlocks
    /\ \E block_infos \in BlockInfoLists(n) :
          LET r == CreateDatasetWithVersion(DB, ds, version, block_infos, schema)
          IN /\ SetDB(r.db)
             /\ loc' = [loc EXCEPT ![p] = MetaCallLoc("create_dataset_with_version", ds,
                                              version, <<>>, r.err)]
    /\ nextBlock' = nextBlock + n
    /\ pc' = [pc EXCEPT ![p] = "done"]
    /\ UNCHANGED <<store, issued, cnvIn, cnvOut, backend, query, runner>>

MetaAddVersion(p, ds, base_version, new_version, n) ==
    /\ Idle(p)
    /\ nextBlock + n <= MaxBlocks
    /\ clock < MaxBlocks
    /\ \E new_blocks \in BlockInfoLists(n) :
          LET r == AddVersion(DB, ds, base_version, new_version, new_blocks)
          IN /\ SetDB(r.db)
             /\ loc' = [loc EXCEPT ![p] = MetaCallLoc("add_version", ds, base_version,
                                              new_version, r.err)]
    /\ nextBlock' = nextBlock + n
    /\ pc' = [pc EXCEPT ![p] = "done"]
    /\ UNCHANGED <<store, issued, cnvIn, cnvOut, backend, query, runner>>

MetaExtendVersion(p, ds, version, n) ==
    /\ Idle(p)
    /\ nextBlock + n <= MaxBlocks
    /\ \E new_blocks \in BlockInfoLists(n) :
          LET r == ExtendVersion(DB, ds, version, new_blocks)
          IN /\ SetDB(r.db)
             /\ loc' = [loc EXCEPT ![p] = MetaCallLoc("extend_version", ds, version, <<>>, r.err)]
    /\ nextBlock' = nextBlock + n
    /\ pc' = [pc EXCEPT ![p] = "done"]
    /\ UNCHANGED <<store, issued, cnvIn, cnvOut, backend, query, runner>>

MetaDeleteVersion(p, ds, version) ==
    /\ Idle(p)
    /\ LET r == DeleteVersion(DB, ds, version)
       IN /\ SetDB(r.db)
          /\ loc' = [loc EXCEPT ![p] = MetaCallLoc("delete_version", ds, version, <<>>,
                                           IF r.deleted THEN "none" ELSE "false")]
    /\ pc' = [pc EXCEPT ![p] = "done"]
    /\ UNCHANGED <<store, nextBlock, issued, cnvIn, cnvOut, backend, query, runner>>

MetaDeleteDataset(p, ds) ==
    /\ Idle(p)
    /\ LET r == DeleteDataset(DB, ds)
       IN /\ SetDB(r.db)
          /\ loc' = [loc EXCEPT ![p] = MetaCallLoc("delete_dataset", ds, <<>>, <<>>,
                                           IF r.deleted THEN "none" ELSE "false")]
    /\ pc' = [pc EXCEPT ![p] = "done"]
    /\ UNCHANGED <<store, nextBlock, issued, cnvIn, cnvOut, backend, query, runner>>

NextMeta ==
    \E p \in Procs :
        \/ \E ds \in DatasetKeys, version \in MetaLabels, table \in Tables, n \in 0..MaxNewBlocks :
              MetaCreate(p, ds, version, table.schema, n)
        \/ \E ds \in DatasetKeys, base_version \in MetaLabels, new_version \in MetaLabels,
              n \in 0..MaxNewBlocks : MetaAddVersion(p, ds, base_version, new_version, n)
        \/ \E ds \in DatasetKeys, version \in MetaLabels, n \in 0..MaxNewBlocks :
              MetaExtendVersion(p, ds, version, n)
        \/ \E ds \in DatasetKeys, version \in MetaLabels : MetaDeleteVersion(p, ds, version)
        \/ \E ds \in DatasetKeys : MetaDeleteDataset(p, ds)
        \/ Return(p)

SpecMeta == Init /\ [][NextMeta]_vars

(***************************************************************************)
(* The manager called with any name of NamePool: names of two and three    *)
(* segments, and names with another number of segments.                    *)
(***************************************************************************)
NamePool ==
    { <<"n", "s", "/", "a">>,
      <<"n", "s", "/", "a", "/", "v", "1">>,
      <<"n", "s", "/", "a", "/", "v", "2">>,
      <<"n", "s", "/", "a", "/">>,
      <<"n", "s">>,
      <<>>,
      <<"n", "s", "/", "a", "/", "v", "1", "/", "x">>,
      <<"n", "s", "/", "a", "/", "v", "1", "/">> }

NextNames ==
    \E p \in Procs :
        \/ \E name \in NamePool, table \in OneTable : Create(p, name, table)
        \/ \E name \in NamePool, table \in OneTable, cnv \in BOOLEAN :
              Extend(p, name, table, cnv)
        \/ \E name \in NamePool : Erase(p, name)
        \/ \E name \in NamePool : LoadName(p, name)
        \/ \E name \in NamePool : DescribeName(p, name)
        \/ Continue(p)

SpecNames == Init /\ [][NextNames]_vars

(***************************************************************************)
(* The manager on a block store whose calls may fail (StorageFailure), for *)
(* either implementation of the store.                                     *)
(***************************************************************************)
\* what a write_block that fails may leave at the path of the block: nothing,
\* or a file that is not the parquet file of the table
AfterFailedWrite(st, ds, block_id) == { st, WriteBlock(st, ds, block_id, NoTable) }

\* a plausible slip: write_block wrapped like delete_block is in erase, the
\* error swallowed
OnWriteFailureSwallowed(continue) == continue

\* create and extend do not catch what write_block raises: the operation ends
\* with the error (manager.py 210-215 and 265-270)
OnWriteFailure(continue) == [pc |-> "done", result |-> "StorageFailure"]

\* create whose write_block raises (manager.py 205-215)
CreateWriteFails(p, name, ds, table) ==
    /\ Idle(p)
    /\ nextBlock < MaxBlocks
    /\ nextBlock' = nextBlock + 1
    /\ store' \in AfterFailedWrite(store, ds, GenerateBlockId)
    /\ loc' = [loc EXCEPT ![p] = [InitLoc EXCEPT !.op = "create", !.name = name, !.ds = ds,
                                     !.table = table, !.block_id = GenerateBlockId,
                                     !.failed = {GenerateBlockId},
                                     !.result = OnWriteFailure([pc |-> "create_meta",
                                                                result |-> "none"]).result,
                                     !.pre = DB,
                                     !.trace = <<Call("write_block", GenerateBlockId)>>]]
    /\ pc' = [pc EXCEPT ![p] = OnWriteFailure([pc |-> "create_meta", result |-> "none"]).pc]
    /\ UNCHANGED <<datasets, versions, blocks, clock, issued, cnvIn, cnvOut, backend, query, runner>>

\* extend whose write_block raises (manager.py 260-270)
ExtendWriteFails(p, name, ds, version, table, create_new_version) ==
    /\ Idle(p)
    /\ nextBlock < MaxBlocks
    /\ nextBlock' = nextBlock + 1
    /\ store' \in AfterFailedWrite(store, ds, GenerateBlockId)
    /\ loc' = [loc EXCEPT ![p] = [InitLoc EXCEPT !.op = "extend", !.name = name, !.ds = ds,
                                     !.version = version, !.table = table,
                                     !.create_new_version = create_new_version,
                                     !.block_id = GenerateBlockId,
                                     !.failed = {GenerateBlockId},
                                     !.result = OnWriteFailure(
                                         [pc |-> IF create_new_version THEN "extend_list"
                                                 ELSE "extend_inplace",
                                          result |-> "none"]).result,
                                     !.pre = DB,
                                     !.trace = <<Call("write_block", GenerateBlockId)>>]]
    /\ pc' = [pc EXCEPT ![p] = OnWriteFailure(
                                   [pc |-> IF create_new_version THEN "extend_list"
                                           ELSE "extend_inplace",
                                    result |-> "none"]).pc]
    /\ UNCHANGED <<datasets, versions, blocks, clock, issued, cnvIn, cnvOut, backend, query, runner>>

InitFaulty ==
    /\ InitMain
    /\ cnvIn = <<>>
    /\ cnvOut = <<>>
    /\ backend \in Backends
    /\ query = NoQuery
    /\ runner = NoRunner

NextFaulty ==
    \/ ManagerStep(DatasetKeys, OneTable)
    \/ \E p \in Procs :
          \/ \E ds \in DatasetKeys, table \in OneTable :
                CreateWriteFails(p, DatasetName(ds), ds, table)
          \/ \E ds \in DatasetKeys, table \in OneTable, cnv \in BOOLEAN :
                \E version \in VersionInputs(ds) :
                    ExtendWriteFails(p, QualifiedName(ds, version), ds, version, table, cnv)
          \/ EraseDatasetDeleteBlockFails(p)
          \/ EraseVersionDeleteBlockFails(p)

SpecFaulty == InitFaulty /\ [][NextFaulty]_vars

(***************************************************************************)
(* The DataStore called directly, for either implementation, with any      *)
(* block identifier of 1..MaxBlocks.                                       *)
(***************************************************************************)
\* write_block of the implementation be: LocalDataStore overwrites the file;
\* AzureDataStore uploads with overwrite=False, which raises when the blob
\* exists
WriteBlockOn(be, st, ds, block_id, table) ==
    IF be = "azure" /\ (\E x \in st : SameBlock(x, ds, block_id))
    THEN [err |-> "ResourceExists", st |-> st]
    ELSE [err |-> "none", st |-> WriteBlock(st, ds, block_id, table)]

StoreCallLoc(op, ds, block_id, err) ==
    [InitLoc EXCEPT !.op = op, !.ds = ds, !.block_id = block_id,
                    !.result = IF err = "none" THEN "ok" ELSE err,
                    !.pre = DB, !.pre_store = store]

StoreWrite(p, ds, block_id, table) ==
    /\ Idle(p)
    /\ LET r == WriteBlockOn(backend, store, ds, block_id, table)
       IN /\ store' = r.st
          /\ loc' = [loc EXCEPT ![p] = StoreCallLoc("write_block", ds, block_id, r.err)]
    /\ pc' = [pc EXCEPT ![p] = "done"]
    /\ UNCHANGED <<datasets, versions, blocks, clock, nextBlock, issued, cnvIn, cnvOut, backend, query, runner>>

StoreDelete(p, ds, block_id) ==
    /\ Idle(p)
    /\ LET r == DeleteBlockOn(backend, store, ds, block_id)
       IN /\ store' = r.st
          /\ loc' = [loc EXCEPT ![p] = StoreCallLoc("delete_block", ds, block_id, r.err)]
    /\ pc' = [pc EXCEPT ![p] = "done"]
    /\ UNCHANGED <<datasets, versions, blocks, clock, nextBlock, issued, cnvIn, cnvOut, backend, query, runner>>

NextStore ==
    \E p \in Procs :
        \/ \E ds \in AllDatasetKeys, block_id \in 1..MaxBlocks, table \in OneTable :
              StoreWrite(p, ds, block_id, table)
        \/ \E ds \in AllDatasetKeys, block_id \in 1..MaxBlocks : StoreDelete(p, ds, block_id)
        \/ Return(p)

SpecStore == InitFaulty /\ [][NextStore]_vars

(***************************************************************************)
(* Properties                                                              *)
(***************************************************************************)
(***************************************************************************)
(* Concurrent callers.  Each caller runs its own manager on a connection   *)
(* of its own to the same database and the same block store.  A metastore  *)
(* method is a transaction of several statements; under read-committed     *)
(* isolation each SELECT sees what is committed at its moment, and the     *)
(* rows a transaction writes are seen by the others at its commit, where   *)
(* the unique indexes and foreign keys are checked against the committed   *)
(* rows (a writer waits for a conflicting open transaction to end).  So    *)
(* each SELECT is a step, and the writes of a transaction are one step     *)
(* with its commit.  A Version row is identified by (ds, version,          *)
(* created_at), created_at standing for its primary key.                   *)
(***************************************************************************)
ProcsTwo == {1, 2}

\* the number of blocks written in the larger models of two callers
MaxConcurrentBlocks == 2

InitConcurrent ==
    /\ datasets = {}
    /\ versions = {}
    /\ blocks = {}
    /\ clock = 0
    /\ store = {}
    /\ nextBlock = 0
    /\ pc = [p \in ProcsTwo |-> "idle"]
    /\ loc = [p \in ProcsTwo |-> InitLoc]
    /\ issued = [ds \in AllDatasetKeys |-> <<>>]
    /\ cnvIn = <<>>
    /\ cnvOut = <<>>
    /\ backend = "local"
    /\ query = NoQuery
    /\ runner = NoRunner

\* create_dataset_with_version, the writes and the commit (metastore.py
\* 191-220): Dataset.create runs into the unique index (namespace, name) when
\* the row has been committed since the check
CreateDatasetInsert(db, ds, version, block_infos, schema) ==
    IF ds \in db.datasets
    THEN [err |-> "IntegrityError", db |-> db]
    ELSE [err |-> "none",
          db |-> [datasets |-> db.datasets \cup {ds},
                  versions |-> db.versions \cup
                      {[ds |-> ds, version |-> version,
                        row_count |-> SumRowCount(block_infos),
                        file_count |-> Len(block_infos),
                        size_bytes |-> SumSizeBytes(block_infos),
                        schema |-> schema, created_at |-> db.clock]},
                  blocks |-> db.blocks \cup NewBlockRows(ds, version, block_infos, 0),
                  clock |-> db.clock + 1]]

\* create: the check of create_dataset_with_version (metastore.py 180-188)
CreateCheck(p) ==
    /\ pc[p] = "create_meta"
    /\ LET existing == loc[p].ds \in datasets
       IN /\ loc' = [loc EXCEPT ![p].result = IF existing THEN "AlreadyExists" ELSE @,
                                ![p].trace = Append(@, Call("create_dataset_with_version", 0))]
          /\ pc' = [pc EXCEPT ![p] = IF existing THEN "done" ELSE "create_insert"]
    /\ UNCHANGED <<datasets, versions, blocks, clock, store, nextBlock, issued, cnvIn, cnvOut, backend, query, runner>>

\* create: the inserts of create_dataset_with_version, the commit and the
\* return (metastore.py 191-220, manager.py 228-233)
CreateInsert(p) ==
    /\ pc[p] = "create_insert"
    /\ LET l == loc[p]
           r == CreateDatasetInsert(DB, l.ds, V1,
                    <<BlockInfo(l.block_id, l.size_bytes, l.table.rows)>>, l.table.schema)
       IN /\ SetDB(r.db)
          /\ loc' = [loc EXCEPT ![p].result = IF r.err = "none" THEN "ok" ELSE r.err,
                                ![p].ret = IF r.err = "none" THEN QualifiedName(l.ds, V1)
                                           ELSE <<>>]
    /\ pc' = [pc EXCEPT ![p] = "done"]
    /\ UNCHANGED <<store, nextBlock, issued, cnvIn, cnvOut, backend, query, runner>>

\* two callers that create
NextConcurrentCreate ==
    \E p \in ProcsTwo :
        \/ \E ds \in DatasetKeys, table \in Tables : Create(p, DatasetName(ds), table)
        \/ CreateCheck(p)
        \/ CreateInsert(p)
        \/ Return(p)

SpecConcurrentCreate == InitConcurrent /\ [][NextConcurrentCreate]_vars

\* the committed Version row a model object read earlier refers to (by primary
\* key): none when that row has been deleted since
CurrentRow(db, version_obj) ==
    { v \in db.versions : v.ds = version_obj.ds /\ v.version = version_obj.version
                            /\ v.created_at = version_obj.created_at }

\* version_obj.blocks: SELECT ... WHERE version_id = <primary key>
BlocksOfRow(db, version_obj) ==
    IF CurrentRow(db, version_obj) = {} THEN {}
    ELSE BlocksOf(db, version_obj.ds, version_obj.version)

\* a plausible slip: no unique index (dataset, version) on Version
AddVersionInsertNoUnique(db, ds, base_ver, existing_blocks, new_version, new_blocks) ==
    LET c == AddVersionCounters(base_ver, existing_blocks, new_blocks)
        version_obj == [ds |-> ds, version |-> new_version,
                        row_count |-> c.row_count, file_count |-> c.file_count,
                        size_bytes |-> c.size_bytes, schema |-> base_ver.schema,
                        created_at |-> db.clock]
        rows == CopiedBlockRows(ds, new_version, existing_blocks)
                  \cup NewBlockRows(ds, new_version, new_blocks, Len(existing_blocks))
    IN IF ds \notin db.datasets
       THEN [err |-> "IntegrityError", db |-> db]
       ELSE [err |-> "none",
             db |-> [db EXCEPT !.versions = @ \cup {version_obj},
                               !.blocks = @ \cup rows,
                               !.clock = @ + 1]]

\* add_version, the writes and the commit (metastore.py 259-300), from the
\* base row and the block list read before: Version.create is subject to the
\* foreign key to Dataset and the unique index (dataset, version), the
\* Block.create calls to the unique index (version, block_number)
AddVersionInsert(db, ds, base_ver, existing_blocks, new_version, new_blocks) ==
    LET c == AddVersionCounters(base_ver, existing_blocks, new_blocks)
        version_obj == [ds |-> ds, version |-> new_version,
                        row_count |-> c.row_count, file_count |-> c.file_count,
                        size_bytes |-> c.size_bytes, schema |-> base_ver.schema,
                        created_at |-> db.clock]
        rows == CopiedBlockRows(ds, new_version, existing_blocks)
                  \cup NewBlockRows(ds, new_version, new_blocks, Len(existing_blocks))
    IN IF \/ ds \notin db.datasets
          \/ GetVersionObj(db, ds, new_version) # {}
          \/ Cardinality(rows) # Len(existing_blocks) + Len(new_blocks)
          \/ ~BlockNumbersUnique(rows)
       THEN [err |-> "IntegrityError", db |-> db]
       ELSE [err |-> "none",
             db |-> [db EXCEPT !.versions = @ \cup {version_obj},
                               !.blocks = @ \cup rows,
                               !.clock = @ + 1]]

\* extend_version, the writes and the commit (metastore.py 330-353), from the
\* row and the block list read before: the Block.create calls are subject to
\* the foreign key to Version and the unique index (version, block_number);
\* save() writes the counters of the model object, as read, plus the new
\* blocks, to the row with its primary key
ExtendVersionUpdate(db, ds, version, version_obj, current_blocks, new_blocks) ==
    LET cur == CurrentRow(db, version_obj)
        rows == NewBlockRows(ds, version, new_blocks, Len(current_blocks))
    IN IF \/ new_blocks # <<>> /\ cur = {}
          \/ Cardinality(rows) # Len(new_blocks)
          \/ ~BlockNumbersUnique(BlocksOfRow(db, version_obj) \cup rows)
       THEN [err |-> "IntegrityError", db |-> db]
       ELSE IF cur = {} THEN [err |-> "none", db |-> db]
       ELSE [err |-> "none",
             db |-> [db EXCEPT !.versions = (@ \ cur)
                                   \cup {ExtendedVersionRow(version_obj, new_blocks)},
                               !.blocks = @ \cup rows]]

\* extend: add_version, _get_version_obj (metastore.py 252-257)
AddVersionGet(p) ==
    /\ pc[p] = "extend_add"
    /\ LET base_ver == GetVersionObj(DB, loc[p].ds, loc[p].version)
       IN /\ loc' = [loc EXCEPT ![p].version_obj = base_ver,
                                ![p].result = IF base_ver = {} THEN "NotFound" ELSE @,
                                ![p].trace = Append(@, Call("add_version", 0))]
          /\ pc' = [pc EXCEPT ![p] = IF base_ver = {} THEN "done" ELSE "av_blocks"]
    /\ UNCHANGED <<datasets, versions, blocks, clock, store, nextBlock, issued, cnvIn, cnvOut, backend, query, runner>>

\* extend: add_version, the blocks of the base version (metastore.py 259)
AddVersionBlocks(p) ==
    /\ pc[p] = "av_blocks"
    /\ LET base_ver == CHOOSE v \in loc[p].version_obj : TRUE
       IN loc' = [loc EXCEPT ![p].existing_blocks =
                                 OrderByBlockNumber(BlocksOfRow(DB, base_ver))]
    /\ pc' = [pc EXCEPT ![p] = "av_commit"]
    /\ UNCHANGED <<datasets, versions, blocks, clock, store, nextBlock, issued, cnvIn, cnvOut, backend, query, runner>>

\* extend: add_version, the writes, the commit and the return
\* (metastore.py 261-300, manager.py 282-291)
AddVersionCommit(p) ==
    /\ pc[p] = "av_commit"
    /\ LET l == loc[p]
           base_ver == CHOOSE v \in l.version_obj : TRUE
           r == AddVersionInsert(DB, l.ds, base_ver, l.existing_blocks, l.next_version,
                    <<BlockInfo(l.block_id, l.size_bytes, l.table.rows)>>)
       IN /\ SetDB(r.db)
          /\ loc' = [loc EXCEPT ![p].result = IF r.err = "none" THEN "ok" ELSE r.err,
                                ![p].ret = IF r.err = "none"
                                           THEN QualifiedName(l.ds, l.next_version) ELSE <<>>]
          /\ issued' = IF r.err = "none"
                        THEN [issued EXCEPT ![l.ds] = Append(@, l.next_version)]
                        ELSE issued
    /\ pc' = [pc EXCEPT ![p] = "done"]
    /\ UNCHANGED <<store, nextBlock, cnvIn, cnvOut, backend, query, runner>>

\* extend: extend_version, _get_version_obj (metastore.py 326-328)
ExtendVersionGet(p) ==
    /\ pc[p] = "extend_inplace"
    /\ LET version_obj == GetVersionObj(DB, loc[p].ds, loc[p].version)
       IN /\ loc' = [loc EXCEPT ![p].version_obj = version_obj,
                                ![p].result = IF version_obj = {} THEN "NotFound" ELSE @,
                                ![p].trace = Append(@, Call("extend_version", 0))]
          /\ pc' = [pc EXCEPT ![p] = IF version_obj = {} THEN "done" ELSE "xv_blocks"]
    /\ UNCHANGED <<datasets, versions, blocks, clock, store, nextBlock, issued, cnvIn, cnvOut, backend, query, runner>>

\* extend: extend_version, the current blocks (metastore.py 331-332)
ExtendVersionBlocks(p) ==
    /\ pc[p] = "xv_blocks"
    /\ LET version_obj == CHOOSE v \in loc[p].version_obj : TRUE
       IN loc' = [loc EXCEPT ![p].existing_blocks =
                                 OrderByBlockNumber(BlocksOfRow(DB, version_obj))]
    /\ pc' = [pc EXCEPT ![p] = "xv_commit"]
    /\ UNCHANGED <<datasets, versions, blocks, clock, store, nextBlock, issued, cnvIn, cnvOut, backend, query, runner>>

\* extend: extend_version, the writes, the commit and the return
\* (metastore.py 334-353, manager.py 294-301)
ExtendVersionCommit(p) ==
    /\ pc[p] = "xv_commit"
    /\ LET l == loc[p]
           version_obj == CHOOSE v \in l.version_obj : TRUE
           r == ExtendVersionUpdate(DB, l.ds, l.version, version_obj, l.existing_blocks,
                    <<BlockInfo(l.block_id, l.size_bytes, l.table.rows)>>)
       IN /\ SetDB(r.db)
          /\ loc' = [loc EXCEPT ![p].result = IF r.err = "none" THEN "ok" ELSE r.err,
                                ![p].ret = IF r.err = "none"
                                           THEN QualifiedName(l.ds, l.version) ELSE <<>>]
    /\ pc' = [pc EXCEPT ![p] = "done"]
    /\ UNCHANGED <<store, nextBlock, issued, cnvIn, cnvOut, backend, query, runner>>

\* a step of create or extend that follows write_block, statement by statement
ContinueWrite(p) ==
    \/ CreateCheck(p)
    \/ CreateInsert(p)
    \/ ExtendList(p)
    \/ AddVersionGet(p)
    \/ AddVersionBlocks(p)
    \/ AddVersionCommit(p)
    \/ ExtendVersionGet(p)
    \/ ExtendVersionBlocks(p)
    \/ ExtendVersionCommit(p)

\* two callers that create and extend
NextConcurrentExtend ==
    \E p \in ProcsTwo :
        \/ \E ds \in DatasetKeys, table \in OneTable : Create(p, DatasetName(ds), table)
        \/ \E ds \in DatasetKeys, table \in OneTable, cnv \in BOOLEAN :
              \E name \in VersionNames(ds) : Extend(p, name, table, cnv)
        \/ ContinueWrite(p)
        \/ Return(p)

SpecConcurrentExtend == InitConcurrent /\ [][NextConcurrentExtend]_vars

\* delete_version, the delete and the commit (metastore.py 439-441):
\* delete_instance(recursive=True) deletes the Block rows of the row's primary
\* key and then the row; it deletes nothing when the row is gone
DeleteVersionRow(db, version_obj) ==
    IF CurrentRow(db, version_obj) = {} THEN db
    ELSE [db EXCEPT !.versions = @ \ CurrentRow(db, version_obj),
                    !.blocks = { b \in @ : ~(b.ds = version_obj.ds
                                              /\ b.version = version_obj.version) }]

\* erase of a version: get_version, _get_version_obj (manager.py 397-399,
\* metastore.py 369-371)
EraseVersionGetObj(p, name, ds, version) ==
    /\ Idle(p)
    /\ LET version_obj == GetVersionObj(DB, ds, version)
           l == [InitLoc EXCEPT !.op = "erase_version", !.name = name, !.ds = ds,
                                !.version = version, !.pre_store = store,
                                !.version_obj = version_obj,
                                !.pre = DB, !.trace = <<Call("get_version", 0)>>]
       IN /\ loc' = [loc EXCEPT ![p] = [l EXCEPT !.result = IF version_obj = {} THEN "NotFound"
                                                            ELSE @]]
          /\ pc' = [pc EXCEPT ![p] = IF version_obj = {} THEN "done" ELSE "ev_get_blocks"]
    /\ UNCHANGED <<datasets, versions, blocks, clock, store, nextBlock, issued, cnvIn, cnvOut, backend, query, runner>>

\* erase of a version: get_version, the blocks read by _version_to_info
\* (metastore.py 372, 493-494; manager.py 402)
EraseVersionGetBlocks(p) ==
    /\ pc[p] = "ev_get_blocks"
    /\ LET version_obj == CHOOSE v \in loc[p].version_obj : TRUE
       IN loc' = [loc EXCEPT ![p].version_block_ids =
                                 { b.block_id : b \in BlocksOfRow(DB, version_obj) }]
    /\ pc' = [pc EXCEPT ![p] = "ev_get_all"]
    /\ UNCHANGED <<datasets, versions, blocks, clock, store, nextBlock, issued, cnvIn, cnvOut, backend, query, runner>>

\* erase of a version: delete_version, _get_version_obj (metastore.py 436-438);
\* the result False is not looked at by erase
EraseVersionDeleteLookup(p) ==
    /\ pc[p] = "ev_delete_version"
    /\ LET version_obj == GetVersionObj(DB, loc[p].ds, loc[p].version)
       IN /\ loc' = [loc EXCEPT ![p].version_obj = version_obj,
                                ![p].trace = Append(@, Call("delete_version", 0))]
          /\ pc' = [pc EXCEPT ![p] = IF version_obj = {} THEN "ev_remaining"
                                     ELSE "ev_delete_commit"]
    /\ UNCHANGED <<datasets, versions, blocks, clock, store, nextBlock, issued, cnvIn, cnvOut, backend, query, runner>>

\* erase of a version: delete_version, the delete and the commit
\* (metastore.py 439-441)
EraseVersionDeleteCommit(p) ==
    /\ pc[p] = "ev_delete_commit"
    /\ SetDB(DeleteVersionRow(DB, CHOOSE v \in loc[p].version_obj : TRUE))
    /\ pc' = [pc EXCEPT ![p] = "ev_remaining"]
    /\ UNCHANGED <<loc, store, nextBlock, issued, cnvIn, cnvOut, backend, query, runner>>

\* erase(name) (manager.py 368-431), the erase of a version statement by
\* statement
ConcurrentErase(p, name) ==
    LET parts == Split(name, "/")
    IN IF Len(parts) = 3
       THEN EraseVersionGetObj(p, name, <<parts[1], parts[2]>>, parts[3])
       ELSE IF Len(parts) = 2 THEN EraseDatasetEnumerate(p, name, <<parts[1], parts[2]>>)
            ELSE Raise(p, "erase", name, "InvalidName")

\* a step of the erase of a version that follows its first statement
ContinueEraseVersion(p) ==
    \/ EraseVersionGetBlocks(p)
    \/ EraseVersionGetAll(p)
    \/ EraseVersionDeleteLookup(p)
    \/ EraseVersionDeleteCommit(p)
    \/ EraseVersionRemaining(p)
    \/ EraseVersionDeleteBlock(p)

\* two callers that create, extend and erase versions
NextConcurrentErase ==
    \E p \in ProcsTwo :
        \/ \E ds \in DatasetKeys, table \in OneTable :
              nextBlock < MaxConcurrentBlocks /\ Create(p, DatasetName(ds), table)
        \/ \E ds \in DatasetKeys, table \in OneTable, cnv \in BOOLEAN :
              \E name \in VersionNames(ds) :
                  nextBlock < MaxConcurrentBlocks /\ Extend(p, name, table, cnv)
        \/ \E ds \in DatasetKeys : \E name \in VersionNames(ds) : ConcurrentErase(p, name)
        \/ ContinueWrite(p)
        \/ ContinueEraseVersion(p)
        \/ Return(p)

SpecConcurrentErase == InitConcurrent /\ [][NextConcurrentErase]_vars

(***************************************************************************)
(* The HTTP boundary (main.py).  The manager and the metastore raise       *)
(* ValueError for every error of theirs, told apart by the message alone;  *)
(* the unique indexes raise peewee's IntegrityError and the block store    *)
(* its own exceptions.  Each endpoint maps ValueError to one status code   *)
(* and any other exception to 500.                                         *)
(***************************************************************************)
ValueErrors == {"InvalidName", "NotFound", "AlreadyExists", "NoDataBlocks"}

\* the class of the exception behind an outcome
ExceptionClass(result) ==
    IF result = "ok" THEN "none"
    ELSE IF result \in ValueErrors THEN "ValueError"
    ELSE IF result = "IntegrityError" THEN "IntegrityError"
    ELSE "Exception"

\* the status code of the endpoint of the operation op for an outcome
HttpStatus(op, result) ==
    IF ExceptionClass(result) = "none" THEN 200
    ELSE IF ExceptionClass(result) = "ValueError"
         THEN (IF op \in {"create", "extend"} THEN 400 ELSE 404)
         ELSE 500

\* manager.list(namespace=namespace) (main.py 371, cli.py 146): DatasetManager
\* defines create, extend, load, erase and describe and no attribute list, so
\* the call raises AttributeError whatever the catalog holds
ManagerList(db, namespace) == [err |-> "AttributeError", data |-> {}]

\* the namespace arguments of list: that of the datasets, one without
\* datasets, and none
Namespaces == { <<"n", "s">>, <<"o">>, <<>> }

\* GET /api/v1/datasets/list (main.py 355-380)
ListDatasets(p, namespace) ==
    /\ Idle(p)
    /\ LET r == ManagerList(DB, namespace)
       IN loc' = [loc EXCEPT ![p] = [InitLoc EXCEPT !.op = "list", !.name = namespace,
                                        !.result = IF r.err = "none" THEN "ok" ELSE r.err,
                                        !.todo = r.data,
                                        !.pre = DB, !.pre_store = store]]
    /\ pc' = [pc EXCEPT ![p] = "done"]
    /\ UNCHANGED <<datasets, versions, blocks, clock, store, nextBlock, issued, cnvIn, cnvOut, backend, query, runner>>

\* the manager, and the list endpoint
NextList ==
    \/ ManagerStep(DatasetKeys, OneTable)
    \/ \E p \in Procs, namespace \in Namespaces : ListDatasets(p, namespace)

SpecList == Init /\ [][NextList]_vars

\* the names the clients of the boundary send: a dataset, a version, and a
\* malformed name
BoundaryNames ==
    { <<"n", "s", "/", "a">>, <<"n", "s", "/", "a", "/", "v", "1">>, <<"n", "s">> }

\* the handlers of main.py are coroutines that call the manager without
\* awaiting: the server takes a request when no other is being handled
NoRequestRunning == \A q \in ProcsTwo : pc[q] \in {"idle", "done"}

\* two clients of the boundary; a response stays with its client until the
\* client goes on
NextBoundary ==
    \E p \in ProcsTwo :
        \/ \E name \in BoundaryNames, table \in OneTable :
              NoRequestRunning /\ nextBlock < MaxConcurrentBlocks /\ Create(p, name, table)
        \/ \E name \in BoundaryNames, table \in OneTable, cnv \in BOOLEAN :
              NoRequestRunning /\ nextBlock < MaxConcurrentBlocks
                  /\ Extend(p, name, table, cnv)
        \/ \E name \in BoundaryNames : NoRequestRunning /\ Erase(p, name)
        \/ \E name \in BoundaryNames : NoRequestRunning /\ LoadName(p, name)
        \/ \E name \in BoundaryNames : NoRequestRunning /\ DescribeName(p, name)
        \/ Continue(p)

SpecBoundary == InitConcurrent /\ [][NextBoundary]_vars

\* the metastore called directly, and load through the manager
NextLoad ==
    \/ NextMeta
    \/ \E p \in Procs, ds \in DatasetKeys, version \in MetaLabels :
          LoadName(p, QualifiedName(ds, version))

SpecLoad == Init /\ [][NextLoad]_vars

TraceCalls(p, name) == { i \in DOMAIN loc[p].trace : loc[p].trace[i].call = name }

\* the identifiers the running operation has passed to delete_block
DeletedBlocks(p) == { loc[p].trace[i].block_id : i \in TraceCalls(p, "delete_block") }

\* the identifiers of the Block rows of one version in db
IdsOfVersion(db, ds, version) ==
    { r.block_id : r \in { b \in db.blocks : b.ds = ds /\ b.version = version } }

\* the identifiers of the Block rows of a dataset in db
IdsOfDataset(db, ds) == { r.block_id : r \in { b \in db.blocks : b.ds = ds } }

\* when the operation began: the identifiers of the versions of its dataset
\* other than the version it names
IdsOfOtherVersions(p) ==
    { r.block_id : r \in { b \in loc[p].pre.blocks :
                             b.ds = loc[p].ds /\ b.version # loc[p].version } }

Returned(p, op) == pc[p] = "done" /\ loc[p].op = op

RECURSIVE SumOverRows(_, _)
SumOverRows(rows, field) ==
    IF rows = {} THEN 0
    ELSE LET r == CHOOSE x \in rows : TRUE
         IN (IF field = "row_count" THEN r.row_count
             ELSE IF field = "payload" THEN r.table.rows ELSE r.size_bytes)
                + SumOverRows(rows \ {r}, field)

WellFormedLabel(l) ==
    /\ Len(l) >= 2
    /\ l[1] = "v"
    /\ \A i \in 2..Len(l) : IsDigit(l[i])
    /\ l[2] # "0"

LabelNumber(l) == DecVal(Tail(l))

\* C1: an erase of one version never passes to delete_block an identifier that
\* a version of the dataset surviving the erase references.
C1_EraseVersionSparesSharedBlocks ==
    \A p \in Procs :
        loc[p].op = "erase_version" =>
            \A b \in DeletedBlocks(p) :
                b \notin IdsOfOtherVersions(p) /\ b \notin IdsOfDataset(DB, loc[p].ds)

C1_Witness ==
    \E p \in Procs :
        /\ Returned(p, "erase_version")
        /\ DeletedBlocks(p) # {}
        /\ IdsOfVersion(loc[p].pre, loc[p].ds, loc[p].version) \cap IdsOfOtherVersions(p) # {}

\* C2: in every state, the states between the store calls of an operation
\* included, every identifier of a Block row has its payload in the block store.
C2_ReferencedBlocksPresent ==
    \A r \in blocks : Present(r.ds, r.block_id)

\* C3: an erase of a dataset deletes the dataset's metadata before it calls
\* delete_block: every delete_block call comes after the delete_dataset call.
C3_DatasetMetadataDeletedFirst ==
    \A p \in Procs :
        loc[p].op = "erase_dataset" =>
            \A i \in TraceCalls(p, "delete_block") :
                \E j \in TraceCalls(p, "delete_dataset") : j < i

\* C4: an erase of a version V calls delete_version before any delete_block,
\* and the identifiers it passes to delete_block are exactly those of V before
\* the erase minus those the remaining versions reference.
C4_EraseVersionDeletesExactlyOrphans ==
    \A p \in Procs :
        loc[p].op = "erase_version" =>
            /\ \A i \in TraceCalls(p, "delete_block") :
                  \E j \in TraceCalls(p, "delete_version") : j < i
            /\ DeletedBlocks(p) \subseteq
                  IdsOfVersion(loc[p].pre, loc[p].ds, loc[p].version)
                      \ IdsOfDataset(DB, loc[p].ds)
            /\ (pc[p] = "done" /\ loc[p].result = "ok") =>
                  DeletedBlocks(p) = IdsOfVersion(loc[p].pre, loc[p].ds, loc[p].version)
                                        \ IdsOfDataset(DB, loc[p].ds)

C4_Witness ==
    \E p \in Procs :
        /\ Returned(p, "erase_version")
        /\ loc[p].result = "ok"
        /\ Cardinality(IdsOfVersion(loc[p].pre, loc[p].ds, loc[p].version)) = 2
        /\ Cardinality(DeletedBlocks(p)) = 1
        /\ loc[p].trace[Len(loc[p].trace)].call = "delete_block"

\* C5: when an erase of a version has returned, each block of the erased version
\* is still in the block store if another version references it, and is gone
\* from the block store if the erased version was the last one referencing it.
C5_BlockGoneWithLastReference ==
    \A p \in Procs :
        (Returned(p, "erase_version") /\ loc[p].result = "ok") =>
            \A b \in IdsOfVersion(loc[p].pre, loc[p].ds, loc[p].version) :
                Present(loc[p].ds, b) <=> b \in IdsOfOtherVersions(p)

\* v2, made from v1 by extend, is erased after v1: both its blocks go
C5_Witness ==
    \E p \in Procs :
        /\ Returned(p, "erase_version")
        /\ loc[p].version = FormatVersion(2)
        /\ Cardinality(DeletedBlocks(p)) = 2
        /\ { v \in versions : v.ds = loc[p].ds } = {}
        /\ \A b \in DeletedBlocks(p) : ~Present(loc[p].ds, b)

\* C6: a create on a name that has a dataset fails with AlreadyExists and
\* leaves the Dataset, Version and Block rows as they were.
C6_CreateExistingFails ==
    \A p \in Procs :
        (Returned(p, "create") /\ loc[p].ds \in loc[p].pre.datasets) =>
            /\ loc[p].result = "AlreadyExists"
            /\ datasets = loc[p].pre.datasets
            /\ versions = loc[p].pre.versions
            /\ blocks = loc[p].pre.blocks

C6_Witness ==
    \E p \in Procs :
        /\ Returned(p, "create")
        /\ loc[p].result = "AlreadyExists"
        /\ \E v \in versions : v.ds = loc[p].ds /\ v.version = V1
        /\ Cardinality(datasets) = 2

\* C7: every version's row_count and size_bytes are the sums over its Block
\* rows and its file_count is the number of its Block rows.
C7_CountersMatchBlocks ==
    \A v \in versions :
        LET rows == { b \in blocks : b.ds = v.ds /\ b.version = v.version }
        IN /\ v.row_count = SumOverRows(rows, "row_count")
           /\ v.size_bytes = SumOverRows(rows, "size_bytes")
           /\ v.file_count = Cardinality(rows)

C7_Witness ==
    \E p \in Procs :
        /\ Returned(p, "extend_version")
        /\ loc[p].result = "none"
        /\ \E v \in versions :
              /\ v.version = FormatVersion(2)
              /\ v.file_count = 3
              /\ \E w \in loc[p].pre.versions :
                    w.ds = v.ds /\ w.version = v.version /\ w.file_count = 2

\* C8: extend with create_new_version of any existing base version gives a
\* version whose ordered identifiers are those of the base, in the same
\* positions, followed by one new identifier that the base does not have.
C8_NewVersionIsBasePlusOne ==
    \A p \in Procs :
        (Returned(p, "extend") /\ loc[p].create_new_version /\ loc[p].result = "ok") =>
            LET base == { b \in loc[p].pre.blocks :
                            b.ds = loc[p].ds /\ b.version = loc[p].version }
                new == { b \in blocks : b.ds = loc[p].ds /\ b.version = loc[p].next_version }
                n == Cardinality(base)
            IN /\ Cardinality(new) = n + 1
               /\ { b.block_number : b \in base } = 0..(n - 1)
               /\ \A b \in base :
                     \E c \in new : c.block_number = b.block_number /\ c.block_id = b.block_id
               /\ \E c \in new : c.block_number = n /\ c.block_id = loc[p].block_id
               /\ loc[p].block_id \notin { b.block_id : b \in base }
               /\ \E v \in GetVersion(DB, loc[p].ds, loc[p].next_version) :
                     \E w \in GetVersion(loc[p].pre, loc[p].ds, loc[p].version) :
                         v.block_ids = Append(w.block_ids, loc[p].block_id)

\* the base is v1 while v2 exists: not the latest version
C8_Witness ==
    \E p \in Procs :
        /\ Returned(p, "extend")
        /\ loc[p].create_new_version
        /\ loc[p].result = "ok"
        /\ loc[p].version = V1
        /\ loc[p].next_version = FormatVersion(3)

\* C9: _calculate_next_version of well-formed labels is "v" followed by the
\* highest of their numbers plus one ({v1, v3} gives v4), and v1 for no labels.
C9_NextVersionIsMaxPlusOne ==
    cnvOut # <<>> =>
        /\ cnvIn = <<>> => cnvOut = <<"v", "1">>
        /\ { cnvIn[i] : i \in DOMAIN cnvIn } = { <<"v", "1">>, <<"v", "3">> }
              => cnvOut = <<"v", "4">>
        /\ (cnvIn # <<>> /\ \A i \in DOMAIN cnvIn : WellFormedLabel(cnvIn[i])) =>
              /\ WellFormedLabel(cnvOut)
              /\ \E i \in DOMAIN cnvIn :
                    /\ \A j \in DOMAIN cnvIn : LabelNumber(cnvIn[j]) <= LabelNumber(cnvIn[i])
                    /\ LabelNumber(cnvOut) = LabelNumber(cnvIn[i]) + 1

C9_Witness ==
    /\ cnvIn = << <<"v", "3">>, <<"v", "1">> >>
    /\ cnvOut = <<"v", "4">>

\* C10 as claimed: the labels extend issues for a dataset have strictly
\* increasing numbers, so no label is issued twice.
C10_IssuedLabelsStrictlyIncrease ==
    \A ds \in AllDatasetKeys :
        \A i, j \in DOMAIN issued[ds] :
            i < j => LabelNumber(issued[ds][i]) < LabelNumber(issued[ds][j])

\* C10 as amended: the label extend computes is well formed and its number is
\* one more than the highest number among the versions the dataset has at the
\* time of the call, hence above the number of every one of them.
C10_NextLabelAboveExisting ==
    \A p \in Procs :
        (loc[p].op = "extend" /\ pc[p] \in {"extend_add", "done"}
            /\ loc[p].create_new_version) =>
            LET existing == { v.version : v \in { w \in loc[p].pre.versions : w.ds = loc[p].ds } }
            IN /\ WellFormedLabel(loc[p].next_version)
               /\ \A l \in existing : LabelNumber(l) < LabelNumber(loc[p].next_version)
               /\ existing # {} =>
                     \E l \in existing : LabelNumber(loc[p].next_version) = LabelNumber(l) + 1
               /\ existing = {} => loc[p].next_version = V1

\* a label is issued a second time, after the version that had it was erased
C10_Witness ==
    \E ds \in AllDatasetKeys :
        \E i, j \in DOMAIN issued[ds] : i < j /\ issued[ds][i] = issued[ds][j]

\* the versions of S are in the database as they were when the operation of p
\* began: same row (counters, schema), same Block rows, same ordered identifiers
VersionsKept(p, S) ==
    \A v \in S :
        /\ v \in versions
        /\ BlocksOf(DB, v.ds, v.version) = BlocksOf(loc[p].pre, v.ds, v.version)
        /\ VersionToInfo(DB, v) = VersionToInfo(loc[p].pre, v)

\* load of the version v reads every block of v and returns row_count rows
LoadsAllRows(v) ==
    ReadBlocks(store, v.ds, VersionToInfo(DB, v).block_ids)
        = [err |-> "none", rows |-> v.row_count]

\* C11: during and after an extend with create_new_version, every version
\* that existed when the call began has the same row, the same Block rows in
\* the same order and the same schema, and a load of it gives its rows.
C11_ExtendNewVersionKeepsOldVersions ==
    \A p \in Procs :
        (loc[p].op = "extend" /\ loc[p].create_new_version) =>
            /\ VersionsKept(p, loc[p].pre.versions)
            /\ \A v \in loc[p].pre.versions : LoadsAllRows(v)

\* v3 is made from v2, which has two blocks, while v1 exists
C11_Witness ==
    \E p \in Procs :
        /\ Returned(p, "extend")
        /\ loc[p].create_new_version
        /\ loc[p].result = "ok"
        /\ Cardinality(loc[p].pre.versions) = 2
        /\ Cardinality(BlocksOf(DB, loc[p].ds, loc[p].version)) = 2
        /\ Cardinality(BlocksOf(DB, loc[p].ds, loc[p].next_version)) = 3

\* the labels of the versions of the dataset ds in db
LabelsOf(db, ds) == { v.version : v \in { w \in db.versions : w.ds = ds } }

\* C12: an extend without create_new_version that succeeds returns the name
\* it was given, adds one Block row at the end of the target version and the
\* rows, bytes and one file to its counters, and leaves the labels of the
\* dataset and every other version, those sharing blocks with the target
\* included, as they were; one that fails adds no version either.
C12_ExtendInPlaceAppendsOneBlock ==
    \A p \in Procs :
        (Returned(p, "extend") /\ ~loc[p].create_new_version) =>
            /\ LabelsOf(DB, loc[p].ds) = LabelsOf(loc[p].pre, loc[p].ds)
            /\ loc[p].result = "ok" =>
                  LET l == loc[p]
                      before == CHOOSE v \in GetVersionObj(l.pre, l.ds, l.version) : TRUE
                      old == BlocksOf(l.pre, l.ds, l.version)
                  IN /\ l.ret = l.name
                     /\ BlocksOf(DB, l.ds, l.version) = old \cup
                            {[ds |-> l.ds, version |-> l.version,
                              block_number |-> Cardinality(old), block_id |-> l.block_id,
                              size_bytes |-> l.size_bytes, row_count |-> l.table.rows]}
                     /\ \A b \in old : b.block_number < Cardinality(old)
                                          /\ b.block_id # l.block_id
                     /\ \E w \in GetVersion(l.pre, l.ds, l.version) :
                           \E v \in GetVersion(DB, l.ds, l.version) :
                               v.block_ids = Append(w.block_ids, l.block_id)
                     /\ versions = (l.pre.versions \ {before}) \cup
                            {[before EXCEPT !.row_count = @ + l.table.rows,
                                            !.size_bytes = @ + l.size_bytes,
                                            !.file_count = @ + 1]}
                     /\ VersionsKept(p, l.pre.versions \ {before})

\* v1 is extended in place while v2, made from v1, shares its first block
C12_Witness ==
    \E p \in Procs :
        /\ Returned(p, "extend")
        /\ ~loc[p].create_new_version
        /\ loc[p].result = "ok"
        /\ loc[p].version = V1
        /\ IdsOfVersion(DB, loc[p].ds, FormatVersion(2))
               \cap IdsOfVersion(loc[p].pre, loc[p].ds, V1) # {}

\* C13: a load of a version that exists, without filter, columns and limit,
\* passes to read_blocks the identifiers of the version in position order and
\* returns as many rows as the version's row_count, which is the sum of the
\* rows of the batches written into those blocks.
C13_LoadReturnsRowCount ==
    \A p \in Procs :
        (Returned(p, "load") /\ GetVersionObj(DB, loc[p].ds, loc[p].version) # {}) =>
            LET v == CHOOSE w \in GetVersionObj(DB, loc[p].ds, loc[p].version) : TRUE
                ordered == OrderByBlockNumber(BlocksOf(DB, v.ds, v.version))
            IN /\ loc[p].result = "ok"
               /\ loc[p].read_ids = [i \in 1..Len(ordered) |-> ordered[i].block_id]
               /\ \A i \in 1..Len(ordered) : ordered[i].block_number = i - 1
               /\ loc[p].rows = v.row_count
               /\ loc[p].rows = SumOverRows({ x \in store :
                                       \E i \in DOMAIN loc[p].read_ids :
                                           SameBlock(x, v.ds, loc[p].read_ids[i]) }, "payload")
               /\ [i \in DOMAIN loc[p].trace |-> loc[p].trace[i].call]
                      = <<"get_version", "read_blocks">>

\* a version of two blocks, one of a batch of one row and one of a batch of
\* two rows, is loaded
C13_Witness ==
    \E p \in Procs :
        /\ Returned(p, "load")
        /\ loc[p].result = "ok"
        /\ Len(loc[p].read_ids) = 2
        /\ loc[p].rows = 3

\* the labels list_versions returns
Listed(db, ds) == { ListVersions(db, ds)[i] : i \in DOMAIN ListVersions(db, ds) }

\* C14: at every step of an erase of a version, every other version of the
\* dataset keeps its row, its Block rows and their order, is listed and loads
\* with all its rows; when the erase has returned, the only rows gone are the
\* Version row of the erased version and its own Block rows.
C14_EraseVersionKeepsOtherVersions ==
    \A p \in Procs :
        loc[p].op = "erase_version" =>
            LET l == loc[p]
                erased == GetVersionObj(l.pre, l.ds, l.version)
            IN /\ VersionsKept(p, l.pre.versions \ erased)
               /\ \A v \in l.pre.versions \ erased :
                     v.version \in Listed(DB, v.ds) /\ LoadsAllRows(v)
               /\ (pc[p] = "done" /\ l.result = "ok") =>
                     /\ datasets = l.pre.datasets
                     /\ versions = l.pre.versions \ erased
                     /\ blocks = l.pre.blocks \ BlocksOf(l.pre, l.ds, l.version)

\* v1 is erased while v2, made from v1, has two blocks, the first one shared
C14_Witness ==
    \E p \in Procs :
        /\ Returned(p, "erase_version")
        /\ loc[p].result = "ok"
        /\ loc[p].version = V1
        /\ \E v \in versions :
              /\ v.ds = loc[p].ds
              /\ v.file_count = 2
              /\ IdsOfVersion(DB, v.ds, v.version)
                    \cap IdsOfVersion(loc[p].pre, loc[p].ds, V1) # {}

\* C15: when an erase of an existing dataset has returned, the metastore has
\* no Dataset, Version or Block row of the dataset and the block store has no
\* payload under the dataset's namespace and name.
C15_EraseDatasetLeavesNothing ==
    \A p \in Procs :
        (Returned(p, "erase_dataset") /\ loc[p].ds \in loc[p].pre.datasets) =>
            /\ loc[p].result = "ok"
            /\ loc[p].ds \notin datasets
            /\ \A v \in versions : v.ds # loc[p].ds
            /\ \A b \in blocks : b.ds # loc[p].ds
            /\ \A x \in store : x.ds # loc[p].ds

\* the names of the metastore calls that change rows
MutatingCalls ==
    {"create_dataset_with_version", "add_version", "extend_version",
     "delete_dataset", "delete_version"}

Writes(p) == loc[p].op \in {"create", "extend"} /\ loc[p].trace # <<>>

\* C16: in create and in extend the first store call is write_block and the
\* metastore is as it was until write_block has returned; when write_block
\* fails the operation ends with that failure, its only call is the
\* write_block, and the metastore is as it was, with no Block row naming the
\* block.
C16_WriteBeforeMetadata ==
    \A p \in Procs :
        Writes(p) =>
            /\ loc[p].trace[1] = Call("write_block", loc[p].block_id)
            /\ \A i \in DOMAIN loc[p].trace :
                  loc[p].trace[i].call \in MutatingCalls => i > 1
            /\ Len(loc[p].trace) = 1 => DB = loc[p].pre
            /\ loc[p].failed # {} =>
                  /\ pc[p] = "done"
                  /\ loc[p].result = "StorageFailure"
                  /\ Len(loc[p].trace) = 1
                  /\ DB = loc[p].pre
                  /\ \A b \in blocks : b.block_id # loc[p].block_id

\* the write_block of an extend of an existing version fails and leaves a
\* file behind
C16_Witness ==
    \E p \in Procs :
        /\ Returned(p, "extend")
        /\ loc[p].failed # {}
        /\ GetVersionObj(DB, loc[p].ds, loc[p].version) # {}
        /\ Present(loc[p].ds, loc[p].block_id)

\* C17: an erase in which delete_block failed for some blocks still returns
\* without an error, has called delete_block once for every block of its
\* deletion set, and has removed the metadata of the dataset or version.
C17_EraseSurvivesDeleteFailures ==
    \A p \in Procs :
        (loc[p].op \in {"erase_dataset", "erase_version"} /\ loc[p].failed # {}) =>
            LET l == loc[p]
                target == IF l.op = "erase_dataset" THEN IdsOfDataset(l.pre, l.ds)
                          ELSE IdsOfVersion(l.pre, l.ds, l.version) \ IdsOfDataset(DB, l.ds)
            IN /\ l.result \in {"none", "ok"}
               /\ l.failed \subseteq DeletedBlocks(p)
               /\ DeletedBlocks(p) \cup l.todo = target
               /\ pc[p] = "done" =>
                     /\ l.result = "ok"
                     /\ DeletedBlocks(p) = target
                     /\ Cardinality(TraceCalls(p, "delete_block")) = Cardinality(target)
                     /\ l.op = "erase_dataset" =>
                           /\ l.ds \notin datasets
                           /\ \A v \in versions : v.ds # l.ds
                           /\ \A b \in blocks : b.ds # l.ds
                     /\ l.op = "erase_version" =>
                           /\ GetVersionObj(DB, l.ds, l.version) = {}
                           /\ BlocksOf(DB, l.ds, l.version) = {}

\* the first of the two delete_block calls of an erase of a dataset fails
C17_Witness ==
    \E p \in Procs :
        /\ Returned(p, "erase_dataset")
        /\ Cardinality(DeletedBlocks(p)) = 2
        /\ loc[p].failed = {loc[p].trace[2].block_id}
        /\ Present(loc[p].ds, loc[p].trace[2].block_id)
        /\ ~Present(loc[p].ds, loc[p].trace[3].block_id)

\* the same for an erase of a version
C17_WitnessVersion ==
    \E p \in Procs :
        /\ Returned(p, "erase_version")
        /\ Cardinality(DeletedBlocks(p)) = 2
        /\ Cardinality(loc[p].failed) = 1

\* C18: for either implementation of the block store, a delete_block of a
\* block that is not in the store (never written, or deleted before) raises
\* no error and leaves the store as it was.
C18_DeleteAbsentBlockIsNoOp ==
    \A p \in Procs :
        (Returned(p, "delete_block")
            /\ ~(\E x \in loc[p].pre_store : SameBlock(x, loc[p].ds, loc[p].block_id))) =>
            /\ loc[p].result = "ok"
            /\ store = loc[p].pre_store

\* the name given to the running operation of p has a number of segments the
\* operation does not accept
WrongSegmentCount(p) ==
    LET n == Len(Split(loc[p].name, "/"))
    IN \/ loc[p].op = "create" /\ n # 2
       \/ loc[p].op \in {"extend", "load", "describe"} /\ n # 3
       \/ loc[p].op \in {"erase", "erase_dataset", "erase_version"} /\ n \notin {2, 3}

\* C19: an operation given a name with a number of segments it does not
\* accept (create: other than 2; extend, load, describe: other than 3; erase:
\* neither 2 nor 3) fails with InvalidName without a store call and with the
\* metastore and the block store as they were; no other name gives InvalidName.
C19_WrongSegmentCountIsInvalidName ==
    \A p \in Procs :
        loc[p].op # "none" =>
            /\ WrongSegmentCount(p) =>
                  /\ pc[p] = "done"
                  /\ loc[p].result = "InvalidName"
                  /\ loc[p].trace = <<>>
                  /\ DB = loc[p].pre
                  /\ store = loc[p].pre_store
            /\ loc[p].result = "InvalidName" => WrongSegmentCount(p)

\* an erase with a name of four segments, while the dataset exists
C19_Witness ==
    \E p \in Procs :
        /\ Returned(p, "erase")
        /\ loc[p].result = "InvalidName"
        /\ Len(Split(loc[p].name, "/")) = 4
        /\ datasets # {}
        /\ store # {}

\* C20: add_version with a base version that does not exist, and
\* extend_version with a version that does not exist, fail with NotFound and
\* leave every Dataset, Version and Block row as it was.
C20_AbsentVersionIsNotFound ==
    \A p \in Procs :
        (pc[p] = "done" /\ loc[p].op \in {"add_version", "extend_version"}
            /\ GetVersionObj(loc[p].pre, loc[p].ds, loc[p].version) = {}) =>
            /\ loc[p].result = "NotFound"
            /\ DB = loc[p].pre

\* add_version is given new blocks and a base that the dataset, which has
\* another version, does not have
C20_Witness ==
    \E p \in Procs :
        /\ Returned(p, "add_version")
        /\ loc[p].result = "NotFound"
        /\ loc[p].ds \in datasets
        /\ \E v \in versions : v.ds = loc[p].ds
        /\ nextBlock > Cardinality({ b.block_id : b \in loc[p].pre.blocks })

\* the same for extend_version
C20_WitnessExtend ==
    \E p \in Procs :
        /\ Returned(p, "extend_version")
        /\ loc[p].result = "NotFound"
        /\ versions # {}

\* the dataset or version an erase names was absent when the erase began
EraseTargetAbsent(p) ==
    \/ loc[p].op = "erase_dataset" /\ loc[p].ds \notin loc[p].pre.datasets
    \/ loc[p].op = "erase_version"
          /\ GetVersionObj(loc[p].pre, loc[p].ds, loc[p].version) = {}

\* C21: an erase of a dataset or of a version that does not exist ends with
\* NotFound, has called delete_block for no block, and leaves the metastore
\* and the block store as they were when it began.
C21_EraseAbsentIsNotFound ==
    \A p \in Procs :
        (pc[p] = "done" /\ EraseTargetAbsent(p)) =>
            /\ loc[p].result = "NotFound"
            /\ DeletedBlocks(p) = {}
            /\ DB = loc[p].pre
            /\ store = loc[p].pre_store

\* both kinds of erase have ended on an absent target, that of a version in
\* a dataset that exists and holds a block
C21_Witness ==
    \E p \in Procs :
        /\ pc[p] = "done" /\ EraseTargetAbsent(p)
        /\ loc[p].op = "erase_version"
        /\ loc[p].ds \in datasets
        /\ store # {}

C21_WitnessDataset ==
    \E p \in Procs :
        /\ pc[p] = "done" /\ EraseTargetAbsent(p)
        /\ loc[p].op = "erase_dataset"
        /\ store # {}

\* C22: load of a version that does not exist, and load of a version that
\* has no block, both fail with the not-found outcome (a ValueError, status
\* 404 at the boundary) and neither calls read_blocks.
C22_LoadAbsentOrEmptyIsNotFound ==
    \A p \in Procs :
        (Returned(p, "load") /\ loc[p].ds # NoDataset
            /\ \/ GetVersionObj(loc[p].pre, loc[p].ds, loc[p].version) = {}
               \/ BlocksOf(loc[p].pre, loc[p].ds, loc[p].version) = {}) =>
            /\ loc[p].result \in {"NotFound", "NoDataBlocks"}
            /\ ExceptionClass(loc[p].result) = "ValueError"
            /\ HttpStatus("load", loc[p].result) = 404
            /\ TraceCalls(p, "read_blocks") = {}

\* a load has ended on a version that exists and has no block
C22_Witness ==
    \E p \in Procs :
        /\ Returned(p, "load")
        /\ GetVersionObj(DB, loc[p].ds, loc[p].version) # {}
        /\ BlocksOf(DB, loc[p].ds, loc[p].version) = {}

\* a load has ended on a version that does not exist, of a dataset that does
C22_WitnessAbsent ==
    \E p \in Procs :
        /\ Returned(p, "load")
        /\ loc[p].ds \in datasets
        /\ GetVersionObj(DB, loc[p].ds, loc[p].version) = {}

\* C23: when two create calls for the same name have run concurrently, one
\* has succeeded, the other has failed with AlreadyExists, and the metastore
\* holds one dataset row for the name with one version v1 whose Block rows are
\* those of the winner.
C23_ConcurrentCreateOneWinner ==
    \A p, q \in ProcsTwo :
        (/\ p # q
         /\ Returned(p, "create") /\ Returned(q, "create")
         /\ loc[p].ds = loc[q].ds
         /\ loc[p].ds \notin loc[p].pre.datasets
         /\ loc[q].ds \notin loc[q].pre.datasets) =>
            \E w \in {p, q} :
                LET l == CHOOSE x \in {p, q} : x # w
                IN /\ loc[w].result = "ok"
                   /\ loc[l].result = "AlreadyExists"
                   /\ loc[w].ds \in datasets
                   /\ { v.version : v \in { x \in versions : x.ds = loc[w].ds } } = {V1}
                   /\ Cardinality({ x \in versions : x.ds = loc[w].ds }) = 1
                   /\ IdsOfVersion(DB, loc[w].ds, V1) = {loc[w].block_id}

\* the extend calls with create_new_version of p and q have both ended after
\* add_version's commit was tried with the same new label
SameLabelComputed(p, q) ==
    /\ p # q
    /\ Returned(p, "extend") /\ Returned(q, "extend")
    /\ loc[p].create_new_version /\ loc[q].create_new_version
    /\ loc[p].ds = loc[q].ds
    /\ loc[p].next_version = loc[q].next_version
    /\ loc[p].result \in {"ok", "IntegrityError"}
    /\ loc[q].result \in {"ok", "IntegrityError"}

\* C24: under any interleaving of extend calls that make a new version, the
\* versions of a dataset have pairwise distinct labels; when two callers have
\* computed the same next label, one of them has failed, and the failed call
\* has left no Version row and no Block row.
C24_ConcurrentLabelsDistinct ==
    /\ \A v, w \in versions : (v.ds = w.ds /\ v.version = w.version) => v = w
    /\ \A p, q \in ProcsTwo :
          SameLabelComputed(p, q) =>
              \E w \in {p, q} :
                  LET l == CHOOSE x \in {p, q} : x # w
                  IN /\ loc[w].result = "ok"
                     /\ loc[l].result = "IntegrityError"
                     /\ loc[w].block_id \in IdsOfVersion(DB, loc[w].ds, loc[w].next_version)
                     /\ \A b \in blocks : b.block_id # loc[l].block_id
                     /\ Cardinality({ v \in versions : v.ds = loc[w].ds
                                        /\ v.version = loc[w].next_version }) = 1

\* two extend calls have computed the same label, and one has failed
C24_Witness ==
    \E p, q \in ProcsTwo :
        /\ SameLabelComputed(p, q)
        /\ loc[p].result = "IntegrityError"
        /\ loc[q].result = "ok"
        /\ loc[p].next_version = FormatVersion(2)

\* C25: once no metastore call is under way, after any interleaving of
\* extend_version calls with each other and with add_version calls on the
\* same version, every version has row_count, size_bytes and file_count equal
\* to the sums and the number of its own Block rows.
C25_ConcurrentCountersMatchBlocks ==
    (\A p \in ProcsTwo : pc[p] \in {"idle", "done"}) =>
        \A v \in versions :
            LET rows == BlocksOf(DB, v.ds, v.version)
            IN /\ v.row_count = SumOverRows(rows, "row_count")
               /\ v.size_bytes = SumOverRows(rows, "size_bytes")
               /\ v.file_count = Cardinality(rows)

\* the block identifiers that Block rows of live versions of ds refer to
LiveIds(ds) == GetAllBlockIdsForDataset(DB, ds)

\* no step deletes the file of a block that a live version refers to
NoLiveBlockDeleted ==
    \A f \in store \ store' : f.block_id \notin LiveIds(f.ds)

\* two erases of different versions have both ended; the blocks the two
\* versions shared, unless a live version still refers to them, are gone
SharedBlocksDeleted ==
    \A p, q \in ProcsTwo :
        (/\ p # q
         /\ Returned(p, "erase_version") /\ Returned(q, "erase_version")
         /\ loc[p].result = "ok" /\ loc[q].result = "ok"
         /\ loc[p].ds = loc[q].ds /\ loc[p].version # loc[q].version) =>
            \A id \in (loc[p].version_block_ids \cap loc[q].version_block_ids)
                          \ LiveIds(loc[p].ds) :
                ~Present(loc[p].ds, id)

\* C26: under any interleaving of the steps of erase of a version with each
\* other and with extend in both modes, no step deletes the file of a block
\* that a version live at that moment refers to, and a block that two erased
\* versions shared is deleted by the time both erases have ended.
C26_ConcurrentEraseKeepsLiveBlocks ==
    [][NoLiveBlockDeleted]_vars /\ []SharedBlocksDeleted

\* two erases of versions that shared a block have both ended
C26_Witness ==
    \E p, q \in ProcsTwo :
        /\ p # q
        /\ Returned(p, "erase_version") /\ Returned(q, "erase_version")
        /\ loc[p].result = "ok" /\ loc[q].result = "ok"
        /\ loc[p].version # loc[q].version
        /\ loc[p].version_block_ids \cap loc[q].version_block_ids # {}

\* the summaries list is to return for a namespace (all when it is omitted)
SummariesOf(db, namespace) ==
    { [name |-> QualifiedName(v.ds, v.version), row_count |-> v.row_count] :
        v \in { w \in db.versions : w.ds \in db.datasets
                                      /\ (namespace = <<>> \/ w.ds[1] = namespace) } }

\* C27: after any sequence of create, extend and erase, list returns one
\* summary for each existing (dataset, version) pair of the namespace (each
\* pair when the namespace is omitted) with its qualified name and row_count,
\* and nothing for a namespace without datasets.
C27_ListReturnsEveryVersion ==
    \A p \in Procs :
        Returned(p, "list") =>
            /\ loc[p].result = "ok"
            /\ HttpStatus("list", loc[p].result) = 200
            /\ loc[p].todo = SummariesOf(DB, loc[p].name)

\* C28: after any sequence of create_dataset_with_version, add_version,
\* extend_version and deletes, the block_number values of the n Block rows of
\* each version are 0, 1, ..., n-1, each once.
C28_BlockNumbersGapless ==
    \A v \in versions :
        LET rows == BlocksOf(DB, v.ds, v.version)
        IN /\ { b.block_number : b \in rows } = 0 .. (Cardinality(rows) - 1)
           /\ \A b, c \in rows : b.block_number = c.block_number => b = c

\* extend_version has appended to a version that add_version made from a base
\* with blocks: three Block rows or more
C28_Witness ==
    \E p \in Procs :
        /\ Returned(p, "extend_version")
        /\ loc[p].result = "none"
        /\ loc[p].version = FormatVersion(2)
        /\ Cardinality(BlocksOf(DB, loc[p].ds, loc[p].version)) >= 3
        /\ Cardinality(BlocksOf(loc[p].pre, loc[p].ds, loc[p].version)) = 2
        /\ BlocksOf(DB, loc[p].ds, FormatVersion(1)) # {}

ErrorKinds == {"InvalidName", "NotFound", "AlreadyExists"}

\* C29: InvalidName, NotFound and AlreadyExists reach the boundary as
\* different kinds of error: two responses to a malformed name, an absent
\* dataset or version, and a create of an existing dataset, when the errors
\* differ, differ in the kind of the exception and in the status code.
C29_ErrorKindsDistinctAtBoundary ==
    \A p, q \in ProcsTwo :
        (/\ pc[p] = "done" /\ pc[q] = "done"
         /\ loc[p].result \in ErrorKinds /\ loc[q].result \in ErrorKinds
         /\ loc[p].result # loc[q].result) =>
            /\ ExceptionClass(loc[p].result) # ExceptionClass(loc[q].result)
            /\ HttpStatus(loc[p].op, loc[p].result) # HttpStatus(loc[q].op, loc[q].result)

\* the status codes alone: a create of an existing dataset and a malformed
\* name are answered alike
C29_StatusCodesDistinct ==
    \A p, q \in ProcsTwo :
        (/\ pc[p] = "done" /\ pc[q] = "done"
         /\ loc[p].result \in ErrorKinds /\ loc[q].result \in ErrorKinds
         /\ loc[p].result # loc[q].result) =>
            HttpStatus(loc[p].op, loc[p].result) # HttpStatus(loc[q].op, loc[q].result)

\* C30: the next label depends on the well-formed labels only: it is "v" and
\* one more than the highest of their numbers, and v1 when no label is well
\* formed; labels such as "1", "vv2", "v1v2", "v03" and "beta" are ignored.
C30_MalformedLabelsIgnored ==
    cnvOut # <<>> =>
        LET strict == { i \in DOMAIN cnvIn : WellFormedLabel(cnvIn[i]) }
        IN IF strict = {} THEN cnvOut = V1
           ELSE cnvOut = FormatVersion(SetMax({ LabelNumber(cnvIn[i]) : i \in strict }) + 1)

(***************************************************************************)
(* C31 .. C39                                                              *)
(***************************************************************************)
\* the identifiers _generate_block_id has given so far
UsedBlockIds == 1..nextBlock

\* one step writes at most one payload, under an identifier never given
\* before, and leaves every payload already present as it was or removes it
WritesOnlyFreshBlocks ==
    /\ Cardinality(store' \ store) <= 1
    /\ \A y \in store' \ store :
          /\ y.block_id \notin UsedBlockIds
          /\ \A x \in store : ~SameBlock(x, y.ds, y.block_id)

\* C31: each block identifier is passed to write_block exactly once: an
\* extend that creates a new version makes exactly one write_block call, for
\* the new block, never writes the payload of a base block again, and no later
\* operation writes to an identifier already used.
C31_BlockIdWrittenOnce ==
    /\ [][WritesOnlyFreshBlocks]_vars
    /\ [](\A p \in Procs :
            (Returned(p, "extend") /\ loc[p].create_new_version) =>
                /\ Cardinality(TraceCalls(p, "write_block")) = 1
                /\ \A i \in TraceCalls(p, "write_block") :
                      /\ loc[p].trace[i].block_id = loc[p].block_id
                      /\ loc[p].block_id \notin IdsOfDataset(loc[p].pre, loc[p].ds))

C31_Witness ==
    \E p \in Procs :
        /\ Returned(p, "extend") /\ loc[p].create_new_version /\ loc[p].result = "ok"
        /\ IdsOfVersion(loc[p].pre, loc[p].ds, loc[p].version) # {}
        /\ nextBlock >= 3

(***************************************************************************)
(* The queries of the MetaStore, called between its writes, on two         *)
(* datasets.                                                               *)
(***************************************************************************)
\* Block.select(Block.block_id).join(Version).where(Version.dataset == dataset):
\* one row for each Block row of a version of the dataset
JoinedBlockRows(db, ds) ==
    { r \in db.blocks : r.ds = ds /\ \E v \in db.versions : v.ds = ds /\ v.version = r.version }

\* the block_id column of the rows (the query fixes no order)
RECURSIVE BlockIdColumn(_)
BlockIdColumn(rows) ==
    IF rows = {} THEN <<>>
    ELSE LET r == CHOOSE x \in rows : TRUE
         IN <<r.block_id>> \o BlockIdColumn(rows \ {r})

RECURSIVE Distinct(_)
\* a plausible slip: the query without .distinct()
DistinctDropped(column) == column

\* .distinct()
Distinct(column) ==
    IF column = <<>> THEN <<>>
    ELSE LET rest == Distinct(Tail(column))
         IN IF \E i \in DOMAIN rest : rest[i] = Head(column)
            THEN rest ELSE <<Head(column)>> \o rest

\* MetaStore.get_all_block_ids_for_dataset, the list it returns
GetAllBlockIdsList(db, ds) ==
    IF ds \notin db.datasets THEN <<>>
    ELSE Distinct(BlockIdColumn(JoinedBlockRows(db, ds)))

MetaQueryLoc(op, ds, ret) ==
    [InitLoc EXCEPT !.op = op, !.ds = ds, !.result = "none", !.ret = ret, !.pre = DB]

MetaListVersions(p, ds) ==
    /\ Idle(p)
    /\ loc' = [loc EXCEPT ![p] = MetaQueryLoc("list_versions", ds, ListVersions(DB, ds))]
    /\ pc' = [pc EXCEPT ![p] = "done"]
    /\ UNCHANGED <<datasets, versions, blocks, clock, store, nextBlock, issued, cnvIn, cnvOut, backend, query, runner>>

MetaGetAllBlockIds(p, ds) ==
    /\ Idle(p)
    /\ loc' = [loc EXCEPT ![p] = MetaQueryLoc("get_all_block_ids_for_dataset", ds,
                                     GetAllBlockIdsList(DB, ds))]
    /\ pc' = [pc EXCEPT ![p] = "done"]
    /\ UNCHANGED <<datasets, versions, blocks, clock, store, nextBlock, issued, cnvIn, cnvOut, backend, query, runner>>

NextQueries ==
    \E p \in Procs :
        \/ \E ds \in AllDatasetKeys, version \in MetaLabels, table \in OneTable :
              MetaCreate(p, ds, version, table.schema, 1)
        \/ \E ds \in AllDatasetKeys, base_version \in MetaLabels, new_version \in MetaLabels,
              n \in 0..1 : MetaAddVersion(p, ds, base_version, new_version, n)
        \/ \E ds \in AllDatasetKeys, version \in MetaLabels : MetaDeleteVersion(p, ds, version)
        \/ \E ds \in AllDatasetKeys : MetaDeleteDataset(p, ds)
        \/ \E ds \in AllDatasetKeys : MetaListVersions(p, ds)
        \/ \E ds \in AllDatasetKeys : MetaGetAllBlockIds(p, ds)
        \/ Return(p)

SpecQueries == Init /\ [][NextQueries]_vars

\* the values of a list
ValuesOf(list) == { list[i] : i \in DOMAIN list }

NoRepeats(list) == \A i, j \in DOMAIN list : i # j => list[i] # list[j]

\* the blocks the versions of the dataset refer to, from the tables
ReferencedIds(ds) ==
    IF ds \notin datasets THEN {}
    ELSE { b.block_id : b \in { r \in blocks :
              r.ds = ds /\ \E v \in versions : v.ds = ds /\ v.version = r.version } }

\* C32: get_all_block_ids_for_dataset returns exactly the distinct block ids
\* the dataset's existing versions refer to: each once even when versions
\* share it, none of a deleted version, none of another dataset, and the
\* empty list when the dataset is absent.
C32_AllBlockIdsExactAndDistinct ==
    \A p \in Procs :
        Returned(p, "get_all_block_ids_for_dataset") =>
            /\ NoRepeats(loc[p].ret)
            /\ ValuesOf(loc[p].ret) = ReferencedIds(loc[p].ds)
            /\ \A b \in blocks : b.ds # loc[p].ds => b.block_id \notin ValuesOf(loc[p].ret)
            /\ loc[p].ds \notin datasets => loc[p].ret = <<>>

\* two versions share a block, another dataset has a block of its own
C32_Witness ==
    \E p \in Procs :
        /\ Returned(p, "get_all_block_ids_for_dataset")
        /\ Len(loc[p].ret) = 2
        /\ \E b, c \in blocks : /\ b.ds = loc[p].ds /\ c.ds = loc[p].ds
                                /\ b.block_id = c.block_id /\ b.version # c.version
        /\ \E b \in blocks : b.ds # loc[p].ds

\* a version was deleted before the call, and the dataset is absent
C32_WitnessDeleted ==
    \E p \in Procs :
        /\ Returned(p, "get_all_block_ids_for_dataset")
        /\ loc[p].ret = <<>>
        /\ loc[p].ds \notin datasets
        /\ nextBlock > 0

\* the rows of the versions of a dataset, from the table
VersionRows(ds) == { v \in versions : v.ds = ds }

\* the creation time of the version with a label
CreatedAt(ds, label) == (CHOOSE v \in VersionRows(ds) : v.version = label).created_at

\* C33: list_versions returns the labels of exactly the existing versions of
\* the dataset, each once, the most recently created first, and the empty
\* list for an absent dataset.
C33_ListVersionsNewestFirst ==
    \A p \in Procs :
        Returned(p, "list_versions") =>
            LET ret == loc[p].ret
                ds == loc[p].ds
            IN /\ ds \notin datasets => ret = <<>>
               /\ ds \in datasets =>
                     /\ ValuesOf(ret) = { v.version : v \in VersionRows(ds) }
                     /\ Len(ret) = Cardinality(VersionRows(ds))
                     /\ \A i, j \in DOMAIN ret :
                           i < j => CreatedAt(ds, ret[i]) > CreatedAt(ds, ret[j])

\* v2 was created before v1: the order is that of creation, not of the labels
C33_Witness ==
    \E p \in Procs :
        /\ Returned(p, "list_versions")
        /\ loc[p].ret = <<FormatVersion(1), FormatVersion(2)>>
        /\ \E v \in versions : v.ds # loc[p].ds

C33_WitnessAbsent ==
    \E p \in Procs :
        /\ Returned(p, "list_versions")
        /\ loc[p].ds \notin datasets
        /\ datasets # {}

(***************************************************************************)
(* read_blocks called directly with a filter and a limit.  A row is the    *)
(* value of its column x; a file is the list of its rows.                  *)
(***************************************************************************)
MaxLimit == 3

MaxFileRows == 2

MaxQueryFiles == 2

\* Optional[...]: None, or a value
None == <<>>

Some(x) == <<x>>

\* the truth value Python gives an Optional[int] in "if limit:"
Truthy(opt) == opt # None /\ opt[1] # 0

RowValues == {0, 1}

FilterX1 == "x = 1"

\* the files a call may list: one to MaxQueryFiles files of up to MaxFileRows rows
FileRows == UNION { [1..n -> RowValues] : n \in 0..MaxFileRows }

FileLists == UNION { [1..n -> FileRows] : n \in 1..MaxQueryFiles }

\* _build_duckdb_query: the parts of the SQL text it builds
BuildDuckdbQuery(block_paths, columns, filter_expression, limit) ==
    [select |-> IF columns # None THEN columns ELSE Some("*"),
     from |-> block_paths,
     where |-> IF filter_expression # None THEN filter_expression ELSE None,
     limit |-> IF Truthy(limit) THEN limit ELSE None]

\* read_parquet([paths]): the rows of the listed files, one after another
RECURSIVE ReadParquet(_, _)
ReadParquet(files, block_paths) ==
    IF block_paths = <<>> THEN <<>>
    ELSE files[Head(block_paths)] \o ReadParquet(files, Tail(block_paths))

\* the row satisfies the WHERE expression
Matches(expression, row) == expression = FilterX1 => row = 1

\* conn.execute(query): FROM, then WHERE, then LIMIT
Execute(q, files) ==
    LET all == ReadParquet(files, q.from)
        kept == IF q.where = None THEN all
                ELSE SelectSeq(all, LAMBDA row : Matches(q.where[1], row))
    IN IF q.limit = None THEN kept
       ELSE SubSeq(kept, 1, IF q.limit[1] < Len(kept) THEN q.limit[1] ELSE Len(kept))

\* LocalDataStore.read_blocks
ReadBlocksQuery(files, block_ids, filter_expression, columns, limit) ==
    Execute(BuildDuckdbQuery(block_ids, columns, filter_expression, limit), files)

InitQuery ==
    /\ InitMain
    /\ cnvIn = <<>>
    /\ cnvOut = <<>>
    /\ backend = "local"
    /\ runner = NoRunner
    /\ \E files \in FileLists, filter_expression \in {None, Some(FilterX1)},
          limit \in {None} \cup { Some(n) : n \in 0..MaxLimit } :
          query = [files |-> files, filter_expression |-> filter_expression, limit |-> limit,
                   returned |-> FALSE, rows |-> <<>>]

\* one call of read_blocks on all the files
ReadBlocksCall ==
    /\ ~query.returned
    /\ query' = [query EXCEPT !.returned = TRUE,
                     !.rows = ReadBlocksQuery(query.files, [i \in DOMAIN query.files |-> i],
                                  query.filter_expression, None, query.limit)]
    /\ UNCHANGED <<datasets, versions, blocks, clock, store, nextBlock, pc, loc, issued,
                   cnvIn, cnvOut, backend, runner>>

SpecQuery == InitQuery /\ [][ReadBlocksCall]_vars

\* the rows of all the listed files that satisfy the filter of the call
MatchingRows ==
    LET all == ReadParquet(query.files, [i \in DOMAIN query.files |-> i])
    IN IF query.filter_expression = None THEN Len(all)
       ELSE Cardinality({ i \in DOMAIN all : all[i] = 1 })

\* C34: for every limit L >= 0 the filter is applied to the rows of all the
\* listed blocks before the limit, and the number of rows returned is the
\* smaller of L and the number of rows that satisfy the filter; with no limit
\* every row that satisfies the filter is returned.
C34_RowsAreMinOfLimitAndMatching ==
    query.returned =>
        IF query.limit = None THEN Len(query.rows) = MatchingRows
        ELSE Len(query.rows) = IF query.limit[1] < MatchingRows THEN query.limit[1]
                               ELSE MatchingRows

\* the same for the limits above zero and for no limit: it holds
C34_HoldsForPositiveLimit ==
    (query.returned /\ query.limit # Some(0)) =>
        /\ \A i \in DOMAIN query.rows : query.filter_expression # None => query.rows[i] = 1
        /\ IF query.limit = None THEN Len(query.rows) = MatchingRows
           ELSE Len(query.rows) = IF query.limit[1] < MatchingRows THEN query.limit[1]
                                  ELSE MatchingRows

\* the identifiers of the payloads present for a dataset
StoredIds(ds) == { x.block_id : x \in { y \in store : y.ds = ds } }

\* no operation is running: every call made so far has returned
AllReturned == \A p \in Procs : pc[p] \in {"idle", "done"}

\* C35: when every create, extend and erase called so far has returned
\* (with success or with AlreadyExists or NotFound), the payloads present for
\* a dataset are exactly the blocks its surviving versions refer to: a failed
\* create or extend leaves no unreferenced block behind.
C35_StoredBlocksAreReferencedBlocks ==
    AllReturned => \A ds \in AllDatasetKeys : StoredIds(ds) = ReferencedIds(ds)

\* the half that holds: no surviving version refers to a missing payload
C35_ReferencedBlocksAreStored ==
    AllReturned => \A ds \in AllDatasetKeys : ReferencedIds(ds) \subseteq StoredIds(ds)

\* the dataset has its row and no version
EmptyDataset(db, ds) == ds \in db.datasets /\ \A v \in db.versions : v.ds # ds

\* C36: erasing the versions of a dataset one by one with the three-segment
\* erase does not remove the dataset: its row stays with no version, a create
\* of the same name then fails with AlreadyExists and changes nothing, a
\* two-segment erase removes the row, and a create on the absent dataset
\* succeeds and returns v1.
C36_EmptyDatasetBlocksCreateUntilErased ==
    \A p \in Procs :
        LET l == loc[p]
        IN /\ (Returned(p, "erase_version") /\ l.result = "ok") =>
                 /\ l.ds \in datasets
                 /\ (\A v \in l.pre.versions : v.ds = l.ds => v.version = l.version)
                       => EmptyDataset(DB, l.ds)
           /\ (Returned(p, "create") /\ EmptyDataset(l.pre, l.ds)) =>
                 /\ l.result = "AlreadyExists"
                 /\ EmptyDataset(DB, l.ds)
           /\ (Returned(p, "erase_dataset") /\ EmptyDataset(l.pre, l.ds)) =>
                 /\ l.result = "ok"
                 /\ l.ds \notin datasets
           /\ (Returned(p, "create") /\ l.ds \notin l.pre.datasets) =>
                 /\ l.result = "ok"
                 /\ l.ret = QualifiedName(l.ds, V1)
                 /\ { v.version : v \in VersionRows(l.ds) } = {V1}

\* the last version was erased, and the create that follows is refused
C36_Witness ==
    \E p \in Procs :
        /\ Returned(p, "create")
        /\ EmptyDataset(loc[p].pre, loc[p].ds)
        /\ loc[p].result = "AlreadyExists"
        /\ clock >= 2

\* the create after the two-segment erase of the empty dataset
C36_WitnessCreatedAgain ==
    \E p \in Procs :
        /\ Returned(p, "create")
        /\ loc[p].result = "ok"
        /\ clock >= 2
        /\ nextBlock = 3

(***************************************************************************)
(* MigrationRunner.  The *.sql files of migrations_dir are given by the    *)
(* integer their name begins with (one file for a version), or are marked  *)
(* as having a prefix that is no integer; schema_migrations is the set of  *)
(* recorded versions.  A migration may fail while its file is read or its  *)
(* statements are executed.                                                *)
(***************************************************************************)
MaxMigrations == 3

MigrationFiles ==
    { [valid |-> TRUE, version |-> v] : v \in 1..MaxMigrations }
        \cup { [valid |-> FALSE, version |-> 0] }

Targets == {None} \cup { Some(t) : t \in 0..MaxMigrations }

IdleRun ==
    [pc |-> "idle", target_version |-> None, pending |-> <<>>, start_version |-> 0,
     applied |-> <<>>, ran |-> <<>>, failed |-> None]

\* MigrationRunner._get_current_version: SELECT MAX(version), 0 for no row
GetCurrentVersion(schema_migrations) ==
    IF schema_migrations = {} THEN 0 ELSE SetMax(schema_migrations)

\* sorted(migrations, key=lambda x: x[0])
RECURSIVE SortedByVersion(_)
SortedByVersion(vs) ==
    IF vs = {} THEN <<>>
    ELSE LET least == CHOOSE v \in vs : \A w \in vs : v <= w
         IN <<least>> \o SortedByVersion(vs \ {least})

\* MigrationRunner._get_pending_migrations
GetPendingMigrations(files, schema_migrations) ==
    LET current_version == GetCurrentVersion(schema_migrations)
    IN SortedByVersion({ f.version : f \in { g \in files : g.valid /\ g.version > current_version } })

\* a plausible slip: the migration is recorded before its statements run
ApplyMigrationRecordFirst(schema_migrations, version, fails) ==
    [raised |-> fails, schema_migrations |-> schema_migrations \cup {version}]

\* MigrationRunner._apply_migration: the statements, then the INSERT into
\* schema_migrations and the commit
ApplyMigration(schema_migrations, version, fails) ==
    IF fails
    THEN [raised |-> TRUE, schema_migrations |-> schema_migrations]
    ELSE [raised |-> FALSE, schema_migrations |-> schema_migrations \cup {version}]

\* migrate, up to the loop (runner.py 183-189)
MigrateCall(target_version) ==
    /\ runner.run.pc = "idle"
    /\ LET pending == GetPendingMigrations(runner.files, runner.schema_migrations)
       IN runner' = [runner EXCEPT !.run =
                        [IdleRun EXCEPT !.pc = IF pending = <<>> THEN "returned" ELSE "loop",
                                        !.target_version = target_version,
                                        !.pending = pending,
                                        !.start_version =
                                            GetCurrentVersion(runner.schema_migrations)]]
    /\ UNCHANGED <<datasets, versions, blocks, clock, store, nextBlock, pc, loc, issued,
                   cnvIn, cnvOut, backend, query>>

\* one turn of the loop of migrate (runner.py 191-201)
MigrateLoop ==
    /\ runner.run.pc = "loop"
    /\ LET run == runner.run
       IN IF run.pending = <<>>
          THEN runner' = [runner EXCEPT !.run.pc = "returned"]
          ELSE LET version == Head(run.pending)
               IN IF Truthy(run.target_version) /\ version > run.target_version[1]
                  THEN runner' = [runner EXCEPT !.run.pc = "returned"]
                  ELSE \E fails \in BOOLEAN :
                          LET r == ApplyMigration(runner.schema_migrations, version, fails)
                          IN runner' =
                               [runner EXCEPT
                                  !.schema_migrations = r.schema_migrations,
                                  !.run = [run EXCEPT
                                      !.pc = IF r.raised THEN "raised" ELSE "loop",
                                      !.pending = Tail(run.pending),
                                      !.ran = Append(run.ran, version),
                                      !.applied = IF r.raised THEN run.applied
                                                  ELSE Append(run.applied, version),
                                      !.failed = IF r.raised THEN Some(version) ELSE None]]
    /\ UNCHANGED <<datasets, versions, blocks, clock, store, nextBlock, pc, loc, issued,
                   cnvIn, cnvOut, backend, query>>

\* migrate has returned or raised: the caller goes on
MigrateReturn ==
    /\ runner.run.pc \in {"returned", "raised"}
    /\ runner' = [runner EXCEPT !.run = IdleRun,
                                !.prev = [outcome |-> runner.run.pc,
                                          target_version |-> runner.run.target_version]]
    /\ UNCHANGED <<datasets, versions, blocks, clock, store, nextBlock, pc, loc, issued,
                   cnvIn, cnvOut, backend, query>>

InitMigrate ==
    /\ InitMain
    /\ cnvIn = <<>>
    /\ cnvOut = <<>>
    /\ backend = "local"
    /\ query = NoQuery
    /\ \E files \in SUBSET MigrationFiles :
          runner = [files |-> files, schema_migrations |-> {}, run |-> IdleRun,
                    prev |-> [outcome |-> "none", target_version |-> None]]

NextMigrate ==
    \/ \E target_version \in Targets : MigrateCall(target_version)
    \/ MigrateLoop
    \/ MigrateReturn

SpecMigrate == InitMigrate /\ [][NextMigrate]_vars

\* the versions a run of migrate is to apply: those of the files above the
\* schema version at its start and, when a target is given, up to the target
ToApply(run, target_given) ==
    { f.version : f \in { g \in runner.files :
          /\ g.valid
          /\ g.version > run.start_version
          /\ target_given => g.version <= run.target_version[1] } }

\* a returned run applied exactly the versions of expected, in ascending
\* order, each once and recorded, and left the highest of them as the schema
\* version; a run after a returned run with the same target applied nothing
AppliedExactly(run, expected) ==
    /\ ValuesOf(run.applied) = expected
    /\ \A i, j \in DOMAIN run.applied : i < j => run.applied[i] < run.applied[j]
    /\ run.ran = run.applied
    /\ expected \subseteq runner.schema_migrations
    /\ run.applied # <<>> =>
          GetCurrentVersion(runner.schema_migrations) = run.applied[Len(run.applied)]
    /\ (runner.prev.outcome = "returned" /\ runner.prev.target_version = run.target_version)
          => run.applied = <<>>

\* C37: migrate applies the pending migrations (version above the current
\* schema version and, when a target is given, not above the target) in
\* strictly ascending order of version, each exactly once, and records each in
\* schema_migrations; after a successful run the current version is the
\* highest applied one; a second migrate with the same files applies nothing.
C37_MigrateAppliesPendingInOrder ==
    runner # NoRunner =>
        (runner.run.pc = "returned" =>
            AppliedExactly(runner.run, ToApply(runner.run, runner.run.target_version # None)))

\* the same with a target of 0 read as no target: it holds
C37_HoldsWithTargetZeroAsNone ==
    runner # NoRunner =>
        (runner.run.pc = "returned" =>
            AppliedExactly(runner.run, ToApply(runner.run, Truthy(runner.run.target_version))))

SchemaOf(db, ds, label) ==
    (CHOOSE v \in db.versions : v.ds = ds /\ v.version = label).schema

\* C39: add_version gives the new version the schema of the base version and
\* extend_version leaves the schema of its version as it is, whatever the
\* schema of the new rows; the schema recorded for a version is that of the
\* rows passed to the create of its dataset.
C39_SchemaIsThatOfTheCreate ==
    /\ \A p \in Procs :
          LET l == loc[p]
          IN /\ (Returned(p, "create") /\ l.result = "ok") =>
                   SchemaOf(DB, l.ds, V1) = l.table.schema
             /\ (Returned(p, "extend") /\ l.result = "ok" /\ l.create_new_version) =>
                   SchemaOf(DB, l.ds, l.next_version) = SchemaOf(l.pre, l.ds, l.version)
             /\ (Returned(p, "extend") /\ l.result = "ok" /\ ~l.create_new_version) =>
                   SchemaOf(DB, l.ds, l.version) = SchemaOf(l.pre, l.ds, l.version)
    /\ \A v, w \in versions : v.ds = w.ds => v.schema = w.schema

\* rows of another schema were added as a new version
C39_Witness ==
    \E p \in Procs :
        /\ Returned(p, "extend") /\ loc[p].result = "ok" /\ loc[p].create_new_version
        /\ loc[p].table.schema # SchemaOf(loc[p].pre, loc[p].ds, loc[p].version)

\* rows of another schema were added to a version in place
C39_WitnessInPlace ==
    \E p \in Procs :
        /\ Returned(p, "extend") /\ loc[p].result = "ok" /\ ~loc[p].create_new_version
        /\ loc[p].table.schema # SchemaOf(loc[p].pre, loc[p].ds, loc[p].version)

====
